---- MODULE Spec2Model ----
(***************************************************************************)
(* Model of the provisioning pipeline of specify_cli: init's agent loop,   *)
(* download_and_extract_template (resolve, extract, flatten, merge,        *)
(* cleanup) and the file-system effects of the shutil/pathlib calls it     *)
(* makes.                                                                  *)
(*                                                                         *)
(* A directory tree is a function from the paths that exist in it (each a  *)
(* sequence of names, relative to the tree's root) to DIR or, for a plain  *)
(* file, to the file's content.  The root is the path << >>; a tree whose  *)
(* root directory does not exist is the empty function.                    *)
(***************************************************************************)
EXTENDS Naturals, Sequences, FiniteSets, TLC

\* ------------------------------------------------------------------ bounds

\* the largest number of agents selected in one run
MaxAgents == 2

\* the largest permission mode of a script (0o777)
MaxMode == 511

\* ------------------------------------------------------------ directory trees

DIR == "dir"
NoTree == << >>
EmptyDir == (<< >> :> DIR)

Parent(p) == SubSeq(p, 1, Len(p) - 1)
Name(p) == p[Len(p)]
IsPrefix(q, p) == Len(q) <= Len(p) /\ SubSeq(p, 1, Len(q)) = q

Exists(t, p) == p \in DOMAIN t
IsDir(t, p) == p \in DOMAIN t /\ t[p] = DIR
IsFile(t, p) == p \in DOMAIN t /\ t[p] # DIR
Children(t, p) == {q \in DOMAIN t : Len(q) = Len(p) + 1 /\ IsPrefix(p, q)}
Files(t) == {p \in DOMAIN t : t[p] # DIR}

\* every existing path but the root has an existing directory as its parent
WellFormed(t) ==
    \A p \in DOMAIN t : p = << >> \/ IsDir(t, Parent(p))

Write(t, p, v) == [q \in DOMAIN t \cup {p} |-> IF q = p THEN v ELSE t[q]]

\* the tree rooted at directory p of t
Subtree(t, p) ==
    LET under == {q \in DOMAIN t : IsPrefix(p, q)}
    IN  [r \in {SubSeq(q, Len(p) + 1, Len(q)) : q \in under} |-> t[p \o r]]

\* t wrapped in one top-level directory called name
Wrap(t, name) ==
    [q \in {<< >>} \cup {<<name>> \o p : p \in DOMAIN t} |->
        IF q = << >> THEN DIR ELSE t[SubSeq(q, 2, Len(q))]]

Ok(t) == [t |-> t, ok |-> TRUE]
Err(t) == [t |-> t, ok |-> FALSE]

\* ------------------------------------------------------- shutil and pathlib

\* os.makedirs(p, exist_ok=True): creates p and its missing ancestors; raises
\* when p or an ancestor of p is a plain file
MakeDirs(t, p) ==
    LET prefixes == {SubSeq(p, 1, n) : n \in 0..Len(p)}
    IN  IF \E q \in prefixes : IsFile(t, q)
        THEN Err(t)
        ELSE Ok([q \in DOMAIN t \cup prefixes |->
                    IF q \in DOMAIN t THEN t[q] ELSE DIR])

\* shutil.copy2(src, dst) of a file called name with content c: a dst that is
\* a directory stands for dst/name; the file written must not be a directory
\* and must lie in an existing directory
Copy2(c, name, t, dst) ==
    LET real == IF IsDir(t, dst) THEN Append(dst, name) ELSE dst
    IN  IF IsDir(t, real) \/ ~IsDir(t, Parent(real))
        THEN Err(t)
        ELSE Ok(Write(t, real, c))

\* shutil.copytree(src, dst, dirs_exist_ok=True) of directory sp of tree s to
\* dst of tree t: makedirs(dst) raises at once; below it every entry is
\* attempted, the errors are collected and raised at the end
RECURSIVE CopyTree(_, _, _, _)
RECURSIVE CopyEntries(_, _, _, _)
CopyEntries(s, todo, r, dst) ==
    IF todo = {} THEN r
    ELSE LET c == CHOOSE x \in todo : TRUE
             target == Append(dst, Name(c))
             one == IF s[c] = DIR
                    THEN CopyTree(s, c, r.t, target)
                    ELSE Copy2(s[c], Name(c), r.t, target)
         IN  CopyEntries(s, todo \ {c}, [t |-> one.t, ok |-> r.ok /\ one.ok], dst)

\* a copytree that clears the destination before it copies
CopyTreeReplacing(s, sp, t, dst) ==
    LET m == MakeDirs([q \in {r \in DOMAIN t : ~IsPrefix(dst, r)} |-> t[q]], dst)
    IN  IF ~m.ok THEN Err(t) ELSE CopyEntries(s, Children(s, sp), m, dst)

CopyTree(s, sp, t, dst) ==
    LET m == MakeDirs(t, dst)
    IN  IF ~m.ok THEN m ELSE CopyEntries(s, Children(s, sp), m, dst)

\* a preserving copy that overwrites like copytree
CopytreeOverwriting(s, sp, t, dst) == {CopyTree(s, sp, t, dst)}

\* _copytree_preserve(src, dest) of directory sp of tree s onto dst of tree t.
\* iterdir yields the entries in an order the code does not fix and the first
\* error ends the copy, so the result is the set of outcomes over all orders.
RECURSIVE _copytree_preserve(_, _, _, _)
RECURSIVE PreserveEntries(_, _, _, _)
PreserveEntries(s, todo, t, dst) ==
    IF todo = {} THEN {Ok(t)}
    ELSE UNION {
        LET target == Append(dst, Name(c))
            outs == IF s[c] = DIR
                    THEN _copytree_preserve(s, c, t, target)
                    ELSE IF Exists(t, target)
                         THEN {Ok(t)}
                         ELSE {Copy2(s[c], Name(c), t, target)}
        IN  UNION {IF o.ok THEN PreserveEntries(s, todo \ {c}, o.t, dst) ELSE {o}
                   : o \in outs}
        : c \in todo}

_copytree_preserve(s, sp, t, dst) ==
    IF ~Exists(t, dst) THEN {CopyTree(s, sp, t, dst)}
    ELSE IF IsFile(t, dst) THEN {Err(t)}
    ELSE IF s[sp] # DIR THEN {Err(t)}
    ELSE PreserveEntries(s, Children(s, sp), t, dst)

\* --------------------------------------------------------- program constants

SPECS == ".specs"

AI_CHOICES ==
    {"copilot", "claude", "gemini", "cursor", "qwen", "opencode", "codex",
     "windsurf", "kilocode", "auggie", "roo"}

\* each agent's directory, as the sequence of the parts of its path
AGENT_DIRECTORY_MAP ==
    [k \in AI_CHOICES |->
        CASE k = "claude" -> <<".claude">>
          [] k = "gemini" -> <<".gemini">>
          [] k = "cursor" -> <<".cursor">>
          [] k = "qwen" -> <<".qwen">>
          [] k = "opencode" -> <<".opencode">>
          [] k = "codex" -> <<".codex">>
          [] k = "windsurf" -> <<".windsurf">>
          [] k = "kilocode" -> <<".kilocode">>
          [] k = "auggie" -> <<".augment">>
          [] k = "copilot" -> <<".github">>
          [] k = "roo" -> <<".roo">>]

AGENT_ROOT_NAMES == [k \in DOMAIN AGENT_DIRECTORY_MAP |-> AGENT_DIRECTORY_MAP[k][1]]

\* ------------------------------------------------------------------ inputs

\* the agents a run selects from
AgentPool == {"claude", "copilot", "gemini"}

\* the selections: the non-empty sequences of distinct agents (init de-duplicates)
Selections ==
    {q \in UNION {[1..n -> AgentPool] : n \in 1..MaxAgents} :
        \A i, j \in DOMAIN q : i # j => q[i] # q[j]}

\* The content of a template source for an agent: every file of it holds
\* content c.  The paths a source may hold and the kinds of each:
SourcePaths(root) ==
    {<< >>, <<SPECS>>, <<SPECS, "foo.md">>, <<SPECS, "sub">>,
     <<SPECS, "sub", "foo.md">>, <<root>>, <<root, "bar.md">>, <<"README">>}

SourceKinds(p, root, c) ==
    IF p \in {<< >>, <<SPECS, "sub">>, <<root>>} THEN {DIR}
    ELSE IF p = <<SPECS>> THEN {DIR, c}
    ELSE {c}

\* (an archive lists files: a directory of a source holds at least one entry)
SourceTrees(root, c) ==
    {t \in UNION {[S -> {DIR, c}] : S \in SUBSET SourcePaths(root)} :
        /\ << >> \in DOMAIN t
        /\ WellFormed(t)
        /\ \A p \in DOMAIN t : t[p] \in SourceKinds(p, root, c)
        /\ \A p \in DOMAIN t : p # << >> /\ t[p] = DIR => Children(t, p) # {}}

\* a source either holds the content at its root or wraps it in one directory
Sources ==
    [a \in AgentPool |->
        LET plain == SourceTrees(AGENT_ROOT_NAMES[a], a)
        IN  plain \cup {Wrap(t, "pkg") : t \in plain}]

\* what the current directory holds before an in-place run
OLD == "old"
ExistingTrees ==
    {EmptyDir,
     [p \in {<< >>, <<SPECS>>, <<SPECS, "foo.md">>} |->
        IF Len(p) = 2 THEN OLD ELSE DIR],
     [p \in {<< >>, <<SPECS>>, <<SPECS, "foo.md">>, <<SPECS, "sub">>, <<"README">>} |->
        IF p \in {<<SPECS, "sub">>} THEN OLD ELSE DIR],
     [p \in {<< >>, <<SPECS>>, <<SPECS, "sub">>, <<SPECS, "sub", "foo.md">>,
             <<"README">>, <<".github">>, <<".github", "bar.md">>,
             <<".github", "old.md">>} |->
        IF p \in {<<SPECS, "sub", "foo.md">>, <<"README">>, <<".github", "bar.md">>,
                  <<".github", "old.md">>}
        THEN OLD ELSE DIR],
     [p \in {<< >>, <<SPECS>>} |-> IF p = << >> THEN DIR ELSE OLD],
     [p \in {<< >>, <<"README">>, <<"README", "README">>, <<"foo.md">>} |->
        IF p = <<"foo.md">> THEN OLD ELSE DIR]}

\* ------------------------------------------------------------------- state

VARIABLES
    here,                    \* init's --here: the target is the current directory
    selected_ais,            \* the de-duplicated sequence of selected agents
    tree,                    \* the project directory tree (NoTree: no directory)
    idx,                     \* the agent loop's index, from 1
    existing_specs_present,  \* init's running flag
    completed_agents,        \* init's list of agents whose pass returned
    pc,                      \* the position of the run
    status,                  \* "running", or how init ended
    filtered_top_level,      \* download_and_extract_template's filter; {} is None
    preserve_existing_specs, \* its preserve flag
    archive,                 \* the downloaded file: "absent", "partial", "complete"
    cleanup_zip,             \* its flag: the archive was downloaded by this call
    temp_dir,                \* the staging directory exists
    payload_root,            \* the content of the directory that is merged
    flatten_applied,         \* the payload root is the single directory of the source
    local_template_dir,      \* the source is a local directory, used in place
    remaining,               \* the payload root's entries yet to be iterated
    source,                  \* history: the content of the source of this pass
    pre,                     \* history: the project tree when the merge pass (or the
                             \* relocation) under way began
    failed,                  \* history: the stage that failed, or "none"
    interrupted,             \* history: where the run was interrupted, or "none"
    log,                     \* history: the passes and post-steps begun, in order
    again,                   \* the outcome of a second relocation in a row, if run
    os_name,                 \* os.name: "posix" or "nt"
    scripts,                 \* the entries under the scripts directory, each with
                             \* its attributes and mode (none: no such directory)
    pending,                 \* the entries rglob has yet to yield
    updated,                 \* ensure_executable_scripts' count of modes changed
    failures,                \* its list of failures, as the set of their entries
    scripts_before,          \* history: scripts when ensure_executable_scripts began
    script_type,             \* the script type asked for: "sh" or "ps"
    release,                 \* how the release lookup of this pass went, or "none"
    assets,                  \* release_data["assets"]: the asset names, as listed
    asset,                   \* the asset chosen from them (none: << >>)
    requests,                \* history: the HTTP requests made, each with its pass
    listing,                 \* the entries of a local template directory
    found,                   \* what find_agent_template_variant returned, if called
    twin_present,            \* existing_specs_present in a second run, its twin
    twin_preserve,           \* the preserve flag of the pass in the twin run
    run,                     \* history: which run of init on the directory this is
    first_tree,              \* history: the directory after the first run
    payloads,                \* history: the payload each agent had in the first run
    cli_token,               \* the value of --github-token, or None
    environ,                 \* os.environ at GH_TOKEN and GITHUB_TOKEN
    sent,                    \* history: the headers of the requests made
    ai_assistants,           \* the values given through --ai, each a text
    steps,                   \* StepTracker.steps
    call,                    \* history: the last call made on the tracker
    target_before,           \* history: the target directory when init was called
    self_entries             \* the names of the payload entries that resolve to
                             \* the entry of that name in the project directory

\* the state of init's pipeline
pipeline ==
    <<here, selected_ais, tree, idx, existing_specs_present, completed_agents, pc,
      status, filtered_top_level, preserve_existing_specs, archive, cleanup_zip,
      temp_dir, payload_root, flatten_applied, local_template_dir, remaining, source,
      pre, failed, interrupted, log>>

\* the state of the operations checked on their own
relocAux == <<again>>
chmodAux == <<os_name, scripts, pending, updated, failures, scripts_before>>
fetchAux == <<script_type, release, assets, asset, requests>>
variantAux == <<listing, found>>
twinAux == <<twin_present, twin_preserve>>
selfAux == <<self_entries>>
guardAux == <<target_before>>
trackerAux == <<steps, call>>
parseAux == <<ai_assistants>>
tokenAux == <<cli_token, environ, sent>>
rerunAux == <<run, first_tree, payloads>>
lateAux == <<trackerAux, parseAux, tokenAux, rerunAux>>
restAux == <<twinAux, selfAux, guardAux, lateAux>>
aux == <<relocAux, chmodAux, fetchAux, variantAux, restAux>>

vars == <<pipeline, aux>>

config == <<here, selected_ais>>
loopState == <<idx, existing_specs_present, completed_agents>>
callArgs == <<filtered_top_level, preserve_existing_specs>>
history == <<source, pre, failed, interrupted, log>>

\* no operation is checked on its own
RelocAuxInit == again = << >>

ChmodAuxInit ==
    /\ os_name = "posix"
    /\ scripts = << >>
    /\ pending = {}
    /\ updated = 0
    /\ failures = {}
    /\ scripts_before = << >>

NoAsset == << >>

FetchAuxInit ==
    /\ script_type = "sh"
    /\ release = "none"
    /\ assets = << >>
    /\ asset = NoAsset
    /\ requests = << >>

\* The name of an entry of a template directory: "sdd" stands for
\* sdd-<agent>-package-<script><rest>, "spec-kit-template" for
\* spec-kit-template-<agent>-<script><rest>; rest is a sequence of characters
EntryName(family, agent, script, rest) ==
    [family |-> family, agent |-> agent, script |-> script, rest |-> rest]

\* find_agent_template_variant has not been called
Unset == EntryName("unset", "", "", << >>)

VariantAuxInit ==
    /\ listing = << >>
    /\ found = Unset

\* no twin run is followed
TwinAuxInit ==
    /\ twin_present = FALSE
    /\ twin_preserve = FALSE

\* the payload lies apart from the project directory
SelfAuxInit == self_entries = {}

\* the run is followed from the agent loop on
GuardAuxInit == target_before = << >>

\* lines 121-123: a tracker with no step yet
TrackerAuxInit == steps = << >> /\ call = [op |-> "init", key |-> ""]

\* no --ai value: the selection is made otherwise
ParseAuxInit == ai_assistants = << >>

\* a value that is not set
None == <<[text |-> "None", upper |-> FALSE]>>

\* no token anywhere and no request made
TokenAuxInit ==
    /\ cli_token = None
    /\ environ = [GH_TOKEN |-> None, GITHUB_TOKEN |-> None]
    /\ sent = << >>

\* the first run of init, not followed beyond its end
RerunAuxInit == run = 1 /\ first_tree = << >> /\ payloads = << >>

LateAuxInit == TrackerAuxInit /\ ParseAuxInit /\ TokenAuxInit /\ RerunAuxInit

RestAuxInit == TwinAuxInit /\ SelfAuxInit /\ GuardAuxInit /\ LateAuxInit

AuxInit ==
    RelocAuxInit /\ ChmodAuxInit /\ FetchAuxInit /\ VariantAuxInit /\ RestAuxInit

Init ==
    /\ here \in BOOLEAN
    /\ selected_ais \in Selections
    /\ tree \in IF here THEN ExistingTrees ELSE {NoTree}
    /\ idx = 1
    /\ existing_specs_present = Exists(tree, <<SPECS>>)
    /\ completed_agents = << >>
    /\ pc = "loop"
    /\ status = "running"
    /\ filtered_top_level = {}
    /\ preserve_existing_specs = FALSE
    /\ archive = "absent"
    /\ cleanup_zip = FALSE
    /\ temp_dir = FALSE
    /\ payload_root = NoTree
    /\ flatten_applied = FALSE
    /\ local_template_dir = FALSE
    /\ remaining = {}
    /\ source = NoTree
    /\ pre = NoTree
    /\ failed = "none"
    /\ interrupted = "none"
    /\ log = << >>
    /\ AuxInit

\* ------------------------------------------------------- init: the agent loop

\* a loop that passes no filter to any agent
NoTopLevelFilter(i, key) == {}

\* init, lines 1319-1348: the arguments of the pass of agent idx
TopLevelFilter(i, key) ==
    IF i > 1 /\ key \in DOMAIN AGENT_ROOT_NAMES THEN {AGENT_ROOT_NAMES[key]} ELSE {}

\* a loop that preserves whenever the subtree exists, whichever the agent
PreserveWheneverPresent(i, key, present) == present

\* a loop in which a later agent preserves once the subtree has existed
PreserveOncePresent(i, key, present) ==
    \/ i = 1 /\ present
    \/ i > 1 /\ (present \/ key \notin DOMAIN AGENT_ROOT_NAMES)

\* lines 1325-1329: preserve_specs
PreserveSpecs(i, key, present) ==
    \/ i = 1 /\ present
    \/ i > 1 /\ key \notin DOMAIN AGENT_ROOT_NAMES

\* the loop head with an agent left: call download_and_extract_template
BeginAgent ==
    /\ pc = "loop"
    /\ idx <= Len(selected_ais)
    /\ filtered_top_level' = TopLevelFilter(idx, selected_ais[idx])
    /\ preserve_existing_specs' =
            PreserveSpecs(idx, selected_ais[idx], existing_specs_present)
    /\ cleanup_zip' = FALSE
    /\ local_template_dir' = FALSE
    /\ flatten_applied' = FALSE
    /\ log' = Append(log, selected_ais[idx])
    /\ pc' = "resolve"
    /\ UNCHANGED <<aux, config, tree, loopState, status, archive, temp_dir, payload_root,
                   remaining, source, pre, failed, interrupted>>

\* ------------------------------------- download_and_extract_template: resolve

\* lines 694-764, a source that cannot be resolved: a template path that does
\* not exist, no variant for the agent, a failed release lookup, no matching
\* asset.  typer.Exit(1) leaves the function before its try block.
ResolveFail ==
    /\ pc = "resolve"
    /\ failed' = "resolve"
    /\ pc' = "raised"
    /\ UNCHANGED <<aux, config, tree, loopState, status, callArgs, archive, cleanup_zip,
                   temp_dir, payload_root, flatten_applied, local_template_dir,
                   remaining, source, pre, log, interrupted>>

\* lines 704-725: the template path is, or holds for this agent, a directory
ResolveLocalDirectory ==
    /\ pc = "resolve"
    /\ local_template_dir' = TRUE
    /\ pc' = "try"
    /\ UNCHANGED <<aux, config, tree, loopState, status, callArgs, archive, cleanup_zip,
                   temp_dir, payload_root, flatten_applied, remaining, history>>

\* lines 726-737: the template path is, or holds for this agent, an archive
ResolveLocalArchive ==
    /\ pc = "resolve"
    /\ pc' = "try"
    /\ UNCHANGED <<aux, config, tree, loopState, status, callArgs, archive, cleanup_zip,
                   temp_dir, payload_root, flatten_applied, local_template_dir, remaining,
                   history>>

\* download_template_from_github, lines 549-614: the release is looked up, the
\* asset chosen and the archive file opened for writing in the download directory
DownloadStart ==
    /\ pc = "resolve"
    /\ archive' = "partial"
    /\ pc' = "download"
    /\ UNCHANGED <<aux, config, tree, loopState, status, callArgs, cleanup_zip, temp_dir,
                   payload_root, flatten_applied, local_template_dir, remaining, history>>

\* lines 635-641: what the handler of a failed download leaves of the archive
AfterDownloadError(a) == "absent"

DownloadFail ==
    /\ pc = "download"
    /\ archive' = AfterDownloadError(archive)
    /\ failed' = "resolve"
    /\ pc' = "raised"
    /\ UNCHANGED <<aux, config, tree, loopState, status, callArgs, cleanup_zip, temp_dir,
                   payload_root, flatten_applied, local_template_dir, remaining, source, pre, log, interrupted>>

\* lines 642-650 and 754: the download completes and
\* download_template_from_github returns, its local state gone
DownloadDone ==
    /\ pc = "download"
    /\ archive' = "complete"
    /\ cleanup_zip' = TRUE
    /\ release' = "none"
    /\ assets' = << >>
    /\ asset' = NoAsset
    /\ pc' = "try"
    /\ UNCHANGED <<relocAux, chmodAux, variantAux, restAux, script_type, requests, config, tree, loopState, status, callArgs, temp_dir, payload_root,
                   flatten_applied, local_template_dir, remaining, history>>

\* ------------------------------ download_and_extract_template: the try block

\* a cleanup that leaves the staging directory
LeakTempDir(t) == t

\* lines 873-885, the finally clause
FinallyTempDir(t) == FALSE
FinallyArchive(cz, a) == IF cz /\ a # "absent" THEN "absent" ELSE a

\* lines 812-827: the project directory is made unless in place; an archive
\* gets a fresh staging directory
EnterTry ==
    /\ pc = "try"
    /\ tree' = IF here \/ DOMAIN tree # {} THEN tree ELSE EmptyDir
    /\ temp_dir' = ~local_template_dir
    /\ pc' = "extract"
    /\ UNCHANGED <<aux, config, loopState, status, callArgs, archive, cleanup_zip, payload_root,
                   flatten_applied, local_template_dir, remaining, history>>

\* lines 839-842: the flatten rule
SingleDirectory(s) ==
    /\ Cardinality(Children(s, << >>)) = 1
    /\ \A c \in Children(s, << >>) : s[c] = DIR

\* an extractor without the flatten rule
NoFlatten(s) == s

PayloadRoot(s) ==
    IF SingleDirectory(s)
    THEN Subtree(s, CHOOSE c \in Children(s, << >>) : TRUE)
    ELSE s

TopLevelNames(s) == {Name(c) : c \in Children(s, << >>)}

\* a merge that ignores the filter
NeverSkipped(name, filter) == FALSE

\* lines 792-793: the filter skips the entry
Skipped(name, filter) == filter # {} /\ name \notin filter

\* lines 819-842 and 790-793: the archive is extracted (a local directory is
\* listed) and the payload root chosen; the merge pass begins.  An entry the
\* filter skips leaves everything as it is wherever it comes in iterdir's
\* order, so the entries left to iterate are those that pass the filter.
Extract ==
    /\ pc = "extract"
    /\ \E src \in Sources[selected_ais[idx]] :
         /\ source' = src
         /\ payload_root' = PayloadRoot(src)
         /\ flatten_applied' = SingleDirectory(src)
         /\ remaining' = {n \in TopLevelNames(PayloadRoot(src)) :
                            ~Skipped(n, filtered_top_level)}
    /\ pre' = tree
    /\ pc' = "merge"
    /\ UNCHANGED <<aux, config, tree, loopState, status, callArgs, archive, cleanup_zip,
                   temp_dir, local_template_dir, failed, log, interrupted>>

\* lines 820-836: the archive is corrupt, an entry cannot be written or the
\* directory cannot be listed
ExtractFail ==
    /\ pc = "extract"
    /\ failed' = "extract"
    /\ pc' = "except"
    /\ UNCHANGED <<aux, config, tree, loopState, status, callArgs, archive, cleanup_zip,
                   temp_dir, payload_root, flatten_applied, local_template_dir, remaining,
                   source, pre, log, interrupted>>

\* ---------------------------------- download_and_extract_template: the merge

\* a guard that never finds an entry at its destination
NeverSameLocation(name) == FALSE

\* lines 795-800: the entry resolves to its own destination path
SameLocation(name) == name \in self_entries

\* lines 802-810 for an entry that is its own destination: _copytree_preserve
\* finds every file present; shutil.copy2 of a file onto itself raises
\* SameFileError, and shutil.copytree raises Error when a file lies in the
\* directory
SelfCopy(t, name, preserve) ==
    IF preserve /\ name = SPECS THEN Ok(t)
    ELSE IF \E p \in Files(t) : IsPrefix(<<name>>, p) THEN Err(t)
    ELSE Ok(t)

\* _merge_into_project, lines 791-810: one entry of the payload root.  The set
\* of outcomes: the project tree afterwards and whether the copy raised.
MergeEntry(t, s, name, filter, preserve) ==
    IF Skipped(name, filter) THEN {Ok(t)}
    ELSE IF SameLocation(name) THEN {Ok(t)}
    ELSE IF name \in self_entries THEN {SelfCopy(t, name, preserve)}
    ELSE IF preserve /\ name = SPECS /\ Exists(t, <<name>>)
         THEN _copytree_preserve(s, <<name>>, t, <<name>>)
    ELSE IF s[<<name>>] = DIR
         THEN {CopyTree(s, <<name>>, t, <<name>>)}
    ELSE LET m == MakeDirs(t, << >>)
         IN  IF m.ok THEN {Copy2(s[<<name>>], name, m.t, <<name>>)} ELSE {m}

\* _merge_into_project, lines 788-810: the whole pass over the entries todo, in
\* every order iterdir may yield them; the first entry that raises ends it
RECURSIVE _merge_into_project(_, _, _, _, _)
_merge_into_project(t, s, todo, filter, preserve) ==
    IF todo = {} THEN {Ok(t)}
    ELSE UNION {
        UNION {IF o.ok
               THEN _merge_into_project(o.t, s, todo \ {n}, filter, preserve)
               ELSE {o}
               : o \in MergeEntry(t, s, n, filter, preserve)}
        : n \in todo}

\* lines 839-851: the flatten rule and the merge of what it chose, for a source
\* src; the set of outcomes over every order of the entries
MergeRun(t, src, filter, preserve) ==
    LET root == PayloadRoot(src)
    IN  _merge_into_project(t, root,
                            {n \in TopLevelNames(root) : ~Skipped(n, filter)},
                            filter, preserve)

\* one iteration of the loop of line 790
MergeItem ==
    /\ pc = "merge"
    /\ \E n \in remaining :
         \E o \in MergeEntry(tree, payload_root, n, filtered_top_level,
                             preserve_existing_specs) :
            /\ tree' = o.t
            /\ remaining' = remaining \ {n}
            /\ pc' = IF o.ok THEN "merge" ELSE "except"
            /\ failed' = IF o.ok THEN failed ELSE "merge"
    /\ UNCHANGED <<aux, config, loopState, status, callArgs, archive, cleanup_zip,
                   temp_dir, payload_root, flatten_applied, local_template_dir, source, pre, log, interrupted>>

\* an I/O failure while copying an entry (a full disk, a permission), before
\* anything of the entry is written
MergeIOError ==
    /\ pc = "merge"
    /\ remaining # {}
    /\ failed' = "merge"
    /\ pc' = "except"
    /\ UNCHANGED <<aux, config, tree, loopState, status, callArgs, archive, cleanup_zip,
                   temp_dir, payload_root, flatten_applied, local_template_dir, remaining,
                   source, pre, log, interrupted>>

\* lines 851-857 and 870-887: the loop is over; the finally clause runs and the
\* function returns
MergeDone ==
    /\ pc = "merge"
    /\ remaining = {}
    /\ temp_dir' = FinallyTempDir(temp_dir)
    /\ archive' = FinallyArchive(cleanup_zip, archive)
    /\ pc' = "returned"
    /\ UNCHANGED <<aux, config, tree, loopState, status, callArgs, cleanup_zip, payload_root,
                   flatten_applied, local_template_dir, remaining, history>>

\* a handler that removes nothing
KeepCreated(h, t) == t

\* lines 867-868 and 1392-1393: a project directory the run created is removed
RemoveCreated(h, t) == IF ~h /\ DOMAIN t # {} THEN NoTree ELSE t

\* lines 859-869 and 873-885: an error of the try block; the handler removes a
\* created project directory, the finally clause runs, typer.Exit(1) is raised
\* and the function's local state is gone
Except ==
    /\ pc = "except"
    /\ tree' = RemoveCreated(here, tree)
    /\ temp_dir' = FinallyTempDir(temp_dir)
    /\ archive' = FinallyArchive(cleanup_zip, archive)
    /\ payload_root' = NoTree
    /\ source' = NoTree
    /\ remaining' = {}
    /\ pc' = "raised"
    /\ UNCHANGED <<aux, config, loopState, status, callArgs, cleanup_zip, flatten_applied,
                   local_template_dir, pre, failed, interrupted, log>>

\* lines 1350-1351: the pass returned; on to the next agent
AgentReturn ==
    /\ pc = "returned"
    /\ completed_agents' = Append(completed_agents, selected_ais[idx])
    /\ existing_specs_present' = (existing_specs_present \/ Exists(tree, <<SPECS>>))
    /\ idx' = idx + 1
    /\ payload_root' = NoTree
    /\ source' = NoTree
    /\ pc' = "loop"
    /\ UNCHANGED <<aux, config, tree, status, callArgs, archive, cleanup_zip, temp_dir,
                   flatten_applied, local_template_dir, remaining, pre, failed, log, interrupted>>

\* lines 1380-1394: init's handler of any Exception; exit status 1
InitExcept ==
    /\ pc = "raised"
    /\ tree' = RemoveCreated(here, tree)
    /\ status' = "failure"
    /\ pc' = "done"
    /\ UNCHANGED <<aux, config, loopState, callArgs, archive, cleanup_zip, temp_dir,
                   payload_root, flatten_applied, local_template_dir, remaining, history>>

\* A KeyboardInterrupt while the download streams, the archive is extracted or
\* the payload is merged.  It is no Exception: no handler of lines 635, 758,
\* 859 or 1380 catches it.  Inside the try block the finally clause runs.  The
\* process ends and with it the function's local state.
Interrupt ==
    /\ pc \in {"download", "extract", "merge"}
    /\ temp_dir' = IF pc = "download" THEN temp_dir ELSE FinallyTempDir(temp_dir)
    /\ archive' = IF pc = "download" THEN archive
                  ELSE FinallyArchive(cleanup_zip, archive)
    /\ status' = "interrupted"
    /\ interrupted' = pc
    /\ payload_root' = NoTree
    /\ source' = NoTree
    /\ remaining' = {}
    /\ pc' = "done"
    /\ UNCHANGED <<aux, config, tree, loopState, callArgs, cleanup_zip, flatten_applied,
                   local_template_dir, pre, failed, log>>

\* ------------------------------------------- relocate_non_agent_directories

SPECIFY == ".specify"
get_specs_root == <<SPECS>>
get_specify_root == <<SPECS, SPECIFY>>
legacy_root == <<SPECIFY>>
non_agent_dirs == <<"plan", "spec", "notes", "scratch", "memory", "docs", "logs", "specs">>

\* os.rename(src, dst) onto a dst that does not exist, within a directory that does
Rename(t, src, dst) ==
    LET moved == {q \in DOMAIN t : IsPrefix(src, q)}
        kept == DOMAIN t \ moved
        Rest(q, n) == SubSeq(q, n + 1, Len(q))
    IN  [q \in kept \cup {dst \o Rest(r, Len(src)) : r \in moved} |->
            IF q \in kept THEN t[q] ELSE t[src \o Rest(q, Len(dst))]]

\* shutil.move(src, dst) onto a dst that does not exist: a rename; when the
\* rename fails for want of dst's directory, a directory is copied with
\* copytree (which makes the missing directories) and removed, and the copy of
\* a plain file raises
Move(t, src, dst) ==
    IF IsDir(t, Parent(dst)) THEN Ok(Rename(t, src, dst))
    ELSE IF IsDir(t, src)
         THEN LET m == MakeDirs(t, Parent(dst))
              IN  IF m.ok THEN Ok(Rename(m.t, src, dst)) ELSE Err(t)
    ELSE Err(t)

\* a merge of children that replaces what the destination holds
RECURSIVE MoveChildrenOverwriting(_, _, _)
MoveChildrenOverwriting(t, todo, dest) ==
    IF todo = {} THEN t
    ELSE LET child == CHOOSE x \in todo : TRUE
             target == Append(dest, Name(child))
             cleared == [q \in {r \in DOMAIN t : ~IsPrefix(target, r)} |-> t[q]]
         IN  MoveChildrenOverwriting(Rename(cleared, child, target),
                                     todo \ {child}, dest)

\* lines 949-953 and 994-998: the children of item whose name is free in the
\* directory dest are moved into it
RECURSIVE MoveChildren(_, _, _)
MoveChildren(t, todo, dest) ==
    IF todo = {} THEN t
    ELSE LET child == CHOOSE x \in todo : TRUE
             target == Append(dest, Name(child))
         IN  MoveChildren(IF Exists(t, target) THEN t ELSE Rename(t, child, target),
                          todo \ {child}, dest)

\* a removal of a directory with all it holds
RmdirRecursive(t, p) ==
    IF IsDir(t, p)
    THEN Ok([q \in {r \in DOMAIN t : ~IsPrefix(p, r)} |-> t[q]])
    ELSE Err(t)

\* Path.rmdir(): removes an empty directory, raises OSError otherwise
Rmdir(t, p) ==
    IF IsDir(t, p) /\ Children(t, p) = {}
    THEN Ok([q \in DOMAIN t \ {p} |-> t[q]])
    ELSE Err(t)

\* lines 945-958: one child of the legacy root
MigrateItem(t, item) ==
    LET dest == Append(get_specify_root, Name(item))
    IN  IF Exists(t, dest)
        THEN IF IsDir(t, item)
             THEN IF IsFile(t, dest) THEN Err(t)
                  ELSE Ok(MoveChildren(t, Children(t, item), dest))
             ELSE Ok(t)
        ELSE Move(t, item, dest)

\* lines 943-962: the legacy root's children in any order; no error is caught
RECURSIVE MigrateLegacy(_, _)
MigrateLegacy(t, todo) ==
    IF todo = {} THEN {Ok(Rmdir(t, legacy_root).t)}
    ELSE UNION {
        LET o == MigrateItem(t, item)
        IN  IF o.ok THEN MigrateLegacy(o.t, todo \ {item}) ELSE {o}
        : item \in todo}

\* lines 976-984: the legacy top-level names, in the list's order; no error is
\* caught
RECURSIVE MoveNonAgentDirs(_, _)
MoveNonAgentDirs(t, i) ==
    IF i > Len(non_agent_dirs) THEN Ok(t)
    ELSE LET origin == <<non_agent_dirs[i]>>
             destination == Append(get_specify_root, non_agent_dirs[i])
         IN  IF ~Exists(t, origin) \/ Exists(t, destination)
             THEN MoveNonAgentDirs(t, i + 1)
             ELSE LET o == Move(t, origin, destination)
                  IN  IF o.ok THEN MoveNonAgentDirs(o.t, i + 1) ELSE o

\* lines 988-1006: one entry of the specs root; every error is caught
NestItem(t, item) ==
    LET dest == Append(get_specify_root, Name(item))
    IN  IF Name(item) = SPECIFY \/ ~Exists(t, item) THEN t
        ELSE IF Exists(t, dest)
             THEN IF IsDir(t, item) /\ IsDir(t, dest)
                  THEN Rmdir(MoveChildren(t, Children(t, item), dest), item).t
                  ELSE t
        ELSE Move(t, item, dest).t

\* lines 987-1006: the entries listed under the specs root, in any order
RECURSIVE MoveNested(_, _)
MoveNested(t, todo) ==
    IF todo = {} THEN {Ok(t)}
    ELSE UNION {MoveNested(NestItem(t, item), todo \ {item}) : item \in todo}

\* relocate_non_agent_directories, lines 935-1006: the set of outcomes, each
\* the project tree afterwards and whether the function returned (ok) or raised
relocate_non_agent_directories(t) ==
    LET step1 == IF IsDir(t, legacy_root)
                 THEN MigrateLegacy(t, Children(t, legacy_root))
                 ELSE {Ok(t)}
        step2 == {IF o.ok THEN MoveNonAgentDirs(o.t, 1) ELSE o : o \in step1}
    IN  UNION {IF ~o.ok THEN {o}
               ELSE IF ~IsDir(o.t, get_specs_root) THEN {Err(o.t)}
               ELSE MoveNested(o.t, Children(o.t, get_specs_root))
               : o \in step2}

\* ------------------------------------------------------ init: after the loop

\* a relocation that does not wait for the loop to end
RelocateEarly ==
    /\ pc = "loop"
    /\ log' = Append(log, "relocate")
    /\ pre' = tree
    /\ \E o \in relocate_non_agent_directories(tree) :
         /\ tree' = o.t
         /\ pc' = IF o.ok THEN "chmod" ELSE "raised"
         /\ failed' = IF o.ok THEN failed ELSE "relocate"
    /\ UNCHANGED <<aux, config, loopState, status, callArgs, archive, cleanup_zip,
                   temp_dir, payload_root, flatten_applied, local_template_dir,
                   remaining, source, interrupted>>

\* lines 1358-1359: every agent's pass has returned; the legacy layout is
\* consolidated
Relocate ==
    /\ pc = "loop"
    /\ idx > Len(selected_ais)
    /\ log' = Append(log, "relocate")
    /\ pre' = tree
    /\ \E o \in relocate_non_agent_directories(tree) :
         /\ tree' = o.t
         /\ pc' = IF o.ok THEN "chmod" ELSE "raised"
         /\ failed' = IF o.ok THEN failed ELSE "relocate"
    /\ UNCHANGED <<aux, config, loopState, status, callArgs, archive, cleanup_zip,
                   temp_dir, payload_root, flatten_applied, local_template_dir,
                   remaining, source, interrupted>>

\* lines 1361-1362: ensure_executable_scripts; it changes file modes only and
\* raises nothing
Chmod ==
    /\ pc = "chmod"
    /\ log' = Append(log, "chmod")
    /\ pc' = "final"
    /\ UNCHANGED <<aux, config, tree, loopState, status, callArgs, archive, cleanup_zip,
                   temp_dir, payload_root, flatten_applied, local_template_dir,
                   remaining, source, pre, failed, interrupted>>

\* lines 1364-1379 and 1399-1401: the git step and the final report; the run
\* ends with success
Finalize ==
    /\ pc = "final"
    /\ status' = "success"
    /\ pc' = "done"
    /\ UNCHANGED <<aux, config, tree, loopState, callArgs, archive, cleanup_zip,
                   temp_dir, payload_root, flatten_applied, local_template_dir,
                   remaining, history>>

\* ----------------------------------------------------------- specification

Next ==
    \/ BeginAgent
    \/ ResolveFail
    \/ ResolveLocalDirectory
    \/ ResolveLocalArchive
    \/ DownloadStart
    \/ DownloadFail
    \/ DownloadDone
    \/ EnterTry
    \/ Extract
    \/ ExtractFail
    \/ MergeItem
    \/ MergeIOError
    \/ MergeDone
    \/ Except
    \/ AgentReturn
    \/ InitExcept
    \/ Interrupt
    \/ Relocate
    \/ Chmod
    \/ Finalize

Spec == Init /\ [][Next]_vars

\* ------------------------------------------- relocation, checked on its own

\* a tree given by its directories and its plain files, each file with content c
TreeOf(dirs, files, c) == [p \in dirs \cup files |-> IF p \in dirs THEN DIR ELSE c]

\* What the project may hold when the agent loop is over, part by part.  A
\* file's content names the part it lies in.
\* the legacy root .specify
LegacyParts ==
    {TreeOf({<< >>}, {}, "legacy"),
     TreeOf({<< >>, <<SPECIFY>>}, {}, "legacy"),
     TreeOf({<< >>, <<SPECIFY>>}, {<<SPECIFY, "docs">>}, "legacy"),
     TreeOf({<< >>, <<SPECIFY>>, <<SPECIFY, "docs">>},
            {<<SPECIFY, "docs", "foo.md">>}, "legacy"),
     TreeOf({<< >>, <<SPECIFY>>, <<SPECIFY, "docs">>},
            {<<SPECIFY, "docs", "foo.md">>, <<SPECIFY, "foo.md">>}, "legacy")}

\* a legacy top-level name
TopParts ==
    {TreeOf({<< >>}, {}, "top"),
     TreeOf({<< >>}, {<<"docs">>}, "top"),
     TreeOf({<< >>, <<"docs">>}, {<<"docs", "foo.md">>}, "top")}

\* the specs root and the entries directly under it
NestedParts ==
    {TreeOf({<< >>}, {}, "nested"),
     TreeOf({<< >>}, {<<SPECS>>}, "nested"),
     TreeOf({<< >>, <<SPECS>>}, {}, "nested"),
     TreeOf({<< >>, <<SPECS>>}, {<<SPECS, "foo.md">>}, "nested"),
     TreeOf({<< >>, <<SPECS>>}, {<<SPECS, "docs">>}, "nested"),
     TreeOf({<< >>, <<SPECS>>, <<SPECS, "docs">>}, {<<SPECS, "docs", "foo.md">>},
            "nested"),
     TreeOf({<< >>, <<SPECS>>, <<SPECS, "docs">>},
            {<<SPECS, "docs", "foo.md">>, <<SPECS, "foo.md">>}, "nested")}

\* the canonical root .specs/.specify
CanonParts ==
    LET root == get_specify_root
        up == {<< >>, <<SPECS>>}
    IN  {TreeOf({<< >>}, {}, "canon"),
         TreeOf(up, {root}, "canon"),
         TreeOf(up \cup {root}, {}, "canon"),
         TreeOf(up \cup {root}, {root \o <<"docs">>}, "canon"),
         TreeOf(up \cup {root, root \o <<"docs">>}, {}, "canon"),
         TreeOf(up \cup {root, root \o <<"docs">>}, {root \o <<"docs", "foo.md">>},
                "canon"),
         TreeOf(up \cup {root}, {root \o <<"foo.md">>}, "canon")}

RelocTrees ==
    {t \in {l @@ tp @@ n @@ c :
                l \in LegacyParts, tp \in TopParts, n \in NestedParts, c \in CanonParts} :
        WellFormed(t)}

\* the agent loop is over: every selected agent's pass has returned
InitReloc ==
    /\ here \in BOOLEAN
    /\ selected_ais \in {q \in Selections : Len(q) = 1}
    /\ tree \in RelocTrees
    /\ idx = Len(selected_ais) + 1
    /\ existing_specs_present = Exists(tree, <<SPECS>>)
    /\ completed_agents = selected_ais
    /\ pc = "loop"
    /\ status = "running"
    /\ filtered_top_level = {}
    /\ preserve_existing_specs = FALSE
    /\ archive = "absent"
    /\ cleanup_zip = FALSE
    /\ temp_dir = FALSE
    /\ payload_root = NoTree
    /\ flatten_applied = FALSE
    /\ local_template_dir = FALSE
    /\ remaining = {}
    /\ source = NoTree
    /\ pre = tree
    /\ failed = "none"
    /\ interrupted = "none"
    /\ log = selected_ais
    /\ AuxInit

\* relocate_non_agent_directories run once more on what its first run left,
\* returned or raised
RelocateAgain ==
    /\ pc \in {"chmod", "raised"}
    /\ again = << >>
    /\ \E o \in relocate_non_agent_directories(tree) : again' = <<o>>
    /\ UNCHANGED <<pipeline, chmodAux, fetchAux, variantAux, restAux>>

NextReloc ==
    \/ Relocate
    \/ RelocateAgain
    \/ Chmod
    \/ Finalize
    \/ InitExcept

SpecReloc == InitReloc /\ [][NextReloc]_vars

\* ------------------------------- ensure_executable_scripts, checked on its own

\* lines 909-916: the permission bits the code tests and sets
OwnerRead == 256
OwnerExec == 64
GroupRead == 32
GroupExec == 8
OtherRead == 4
OtherExec == 1

\* mode & bit, for a single bit
HasBit(mode, bit) == (mode \div bit) % 2 = 1
\* mode | bit
SetBit(mode, bit) == IF HasBit(mode, bit) THEN mode ELSE mode + bit
\* line 909: mode & 0o111
AnyExec(mode) ==
    HasBit(mode, OwnerExec) \/ HasBit(mode, GroupExec) \/ HasBit(mode, OtherExec)

\* a derivation that gives the owner execute only with owner read
NewModeUnforced(mode) ==
    LET m1 == IF HasBit(mode, OwnerRead) THEN SetBit(mode, OwnerExec) ELSE mode
        m2 == IF HasBit(mode, GroupRead) THEN SetBit(m1, GroupExec) ELSE m1
    IN  IF HasBit(mode, OtherRead) THEN SetBit(m2, OtherExec) ELSE m2

\* lines 911-916: new_mode
NewMode(mode) ==
    LET m1 == IF HasBit(mode, OwnerRead) THEN SetBit(mode, OwnerExec) ELSE mode
        m2 == IF HasBit(mode, GroupRead) THEN SetBit(m1, GroupExec) ELSE m1
        m3 == IF HasBit(mode, OtherRead) THEN SetBit(m2, OtherExec) ELSE m2
    IN  IF ~HasBit(m3, OwnerExec) THEN SetBit(m3, OwnerExec) ELSE m3

\* The entries that may lie under the scripts directory, by their path in it,
\* and whether the pattern *.sh of line 899 matches the name
ScriptNames == {"a.sh", "sub/b.sh", "run"}
IsSh(n) == n \in {"a.sh", "sub/b.sh"}

\* An entry: what it is, whether it can be opened for reading, whether its
\* first two bytes are #!, its permission mode, and whether os.chmod on it fails
Entry(kind, readable, shebang, mode, locked) ==
    [kind |-> kind, readable |-> readable, shebang |-> shebang, mode |-> mode,
     locked |-> locked]

\* 0o644, 0o600, 0o755
SomeModes == {420, 384, 493}

\* the scripts directories the normalizer is run on: one script in every mode,
\* and the combinations of up to three entries in a few modes
ScriptDirs ==
    LET every == {("a.sh" :> Entry("file", TRUE, TRUE, m, FALSE)) : m \in 0..MaxMode}
        as == {<< >>} \cup
              {("a.sh" :> Entry("file", r, h, m, l)) :
                  r \in BOOLEAN, h \in BOOLEAN, m \in SomeModes, l \in BOOLEAN}
        bs == {<< >>} \cup
              {("sub/b.sh" :> Entry(k, TRUE, TRUE, m, l)) :
                  k \in {"file", "symlink", "dir"}, m \in {420, 493}, l \in BOOLEAN}
        cs == {<< >>, ("run" :> Entry("file", TRUE, TRUE, 420, FALSE))}
    IN  every \cup {a @@ b @@ c : a \in as, b \in bs, c \in cs}

\* line 899: the entries scripts_root.rglob("*.sh") yields
Rglob(sc) == {n \in DOMAIN sc : IsSh(n)}

\* a test that takes a symlink for a script
EligibleFollowingLinks(e) ==
    e.kind \in {"file", "symlink"} /\ e.readable /\ e.shebang /\ ~AnyExec(e.mode)

\* lines 901-910: the entry is a regular file and no symlink, it can be opened
\* and starts with #!, and its mode has no execute bit
Eligible(e) ==
    e.kind = "file" /\ e.readable /\ e.shebang /\ ~AnyExec(e.mode)

\* the scripts directory (module .paths: specify_scripts_dir)
specify_scripts_dir == get_specify_root \o <<"scripts">>

\* init has relocated and is about to call ensure_executable_scripts
InitChmod ==
    /\ here \in BOOLEAN
    /\ selected_ais \in {q \in Selections : Len(q) = 1}
    /\ os_name \in {"posix", "nt"}
    /\ scripts \in ScriptDirs
    /\ tree = IF DOMAIN scripts = {}
              THEN TreeOf({<< >>, <<SPECS>>, get_specify_root}, {}, "canon")
              ELSE TreeOf({<< >>, <<SPECS>>, get_specify_root, specify_scripts_dir},
                          {}, "canon")
    /\ idx = Len(selected_ais) + 1
    /\ existing_specs_present = TRUE
    /\ completed_agents = selected_ais
    /\ pc = "chmod"
    /\ status = "running"
    /\ filtered_top_level = {}
    /\ preserve_existing_specs = FALSE
    /\ archive = "absent"
    /\ cleanup_zip = FALSE
    /\ temp_dir = FALSE
    /\ payload_root = NoTree
    /\ flatten_applied = FALSE
    /\ local_template_dir = FALSE
    /\ remaining = {}
    /\ source = NoTree
    /\ pre = tree
    /\ failed = "none"
    /\ interrupted = "none"
    /\ log = Append(selected_ais, "relocate")
    /\ RelocAuxInit /\ FetchAuxInit /\ VariantAuxInit /\ RestAuxInit
    /\ pending = {}
    /\ updated = 0
    /\ failures = {}
    /\ scripts_before = << >>

\* lines 892-899: the early returns, and the start of the walk
EnsureStart ==
    /\ pc = "chmod"
    /\ pending' = IF os_name = "nt" \/ DOMAIN scripts = {} THEN {} ELSE Rglob(scripts)
    /\ updated' = 0
    /\ failures' = {}
    /\ scripts_before' = scripts
    /\ pc' = "chmod_loop"
    /\ UNCHANGED <<config, tree, loopState, status, callArgs, archive, cleanup_zip,
                   temp_dir, payload_root, flatten_applied, local_template_dir,
                   remaining, history, relocAux, fetchAux, variantAux, restAux, os_name,
                   scripts>>

\* a walk that a failed chmod ends
EnsureScriptRaising ==
    /\ pc = "chmod_loop"
    /\ \E n \in pending :
         /\ pending' = pending \ {n}
         /\ IF ~Eligible(scripts[n])
            THEN UNCHANGED <<scripts, updated, pc, failed>>
            ELSE IF scripts[n].locked
            THEN pc' = "raised" /\ failed' = "chmod" /\ UNCHANGED <<scripts, updated>>
            ELSE /\ scripts' = [scripts EXCEPT ![n].mode = NewMode(scripts[n].mode)]
                 /\ updated' = updated + 1
                 /\ UNCHANGED <<pc, failed>>
    /\ UNCHANGED <<config, tree, loopState, status, callArgs, archive, cleanup_zip,
                   temp_dir, payload_root, flatten_applied, local_template_dir,
                   remaining, source, pre, interrupted, log, relocAux, fetchAux,
                   variantAux, restAux, os_name, failures, scripts_before>>

\* lines 899-920: one entry of the walk
EnsureScript ==
    /\ pc = "chmod_loop"
    /\ \E n \in pending :
         /\ pending' = pending \ {n}
         /\ IF ~Eligible(scripts[n])
            THEN UNCHANGED <<scripts, updated, failures>>
            ELSE IF scripts[n].locked
            THEN failures' = failures \cup {n} /\ UNCHANGED <<scripts, updated>>
            ELSE /\ scripts' = [scripts EXCEPT ![n].mode = NewMode(scripts[n].mode)]
                 /\ updated' = updated + 1
                 /\ UNCHANGED failures
    /\ UNCHANGED <<pipeline, relocAux, fetchAux, variantAux, restAux, os_name, scripts_before>>

\* lines 921-932: the walk is over; the counts are reported and the function
\* returns
EnsureDone ==
    /\ pc = "chmod_loop"
    /\ pending = {}
    /\ log' = Append(log, "chmod")
    /\ pc' = "final"
    /\ UNCHANGED <<config, tree, loopState, status, callArgs, archive, cleanup_zip,
                   temp_dir, payload_root, flatten_applied, local_template_dir,
                   remaining, source, pre, failed, interrupted, aux>>

NextChmod ==
    \/ EnsureStart
    \/ EnsureScript
    \/ EnsureDone
    \/ Finalize

SpecChmod == InitChmod /\ [][NextChmod]_vars

\* ------------------------- download_template_from_github, checked on its own

\* the longest asset list of a release
MaxAssets == 3

\* The names a release's assets may have, each split at its hyphens and before
\* its suffix
AssetNames ==
    {<<"spec-kit", "template", "claude", "sh", "v1", ".zip">>,
     <<"spec-kit", "template", "claude", "sh", "v2", ".zip">>,
     <<"spec-kit", "template", "claude", "sh", "v1", ".zip", ".sha256">>,
     <<"template", "claude", "sh", ".zip">>,
     <<"spec-kit", "template", "claude", "ps", "v1", ".zip">>,
     <<"spec-kit", "template", "copilot", "sh", "v1", ".zip">>}

\* the asset lists of a release, in listing order
Listings == UNION {[1..n -> AssetNames] : n \in 0..MaxAssets}

\* pattern in name
Contains(name, pattern) ==
    \E i \in 1..(Len(name) - Len(pattern) + 1) :
        SubSeq(name, i, i + Len(pattern) - 1) = pattern

\* name.endswith(suffix)
EndsWith(name, suffix) == Len(name) >= 1 /\ name[Len(name)] = suffix

\* line 574: pattern
Pattern(ai_assistant, st) == <<"spec-kit", "template", ai_assistant, st>>

\* lines 575-578: matching_assets
MatchingAssets(as, pattern) ==
    LET Match(a) == Contains(a, pattern) /\ EndsWith(a, ".zip")
    IN  SelectSeq(as, Match)

\* a choice of the last matching asset
LastAsset(matching_assets) ==
    IF matching_assets # << >> THEN matching_assets[Len(matching_assets)] ELSE NoAsset

\* line 580: asset
FirstAsset(matching_assets) ==
    IF matching_assets # << >> THEN matching_assets[1] ELSE NoAsset

\* how the release lookup may go (lines 551-567)
LookupResults == {"transport_error", "non200", "bad_json", "ok"}

\* a lookup whose failure lets the pass return as if it had succeeded
LookupFailureSkips == "returned"

\* lines 568-571 and 758-764: a failed lookup raises typer.Exit(1), which
\* leaves download_and_extract_template
LookupFailure == "raised"

\* a remote run: no template path is given
InitFetch ==
    /\ here \in BOOLEAN
    /\ selected_ais \in Selections
    /\ tree = IF here THEN EmptyDir ELSE NoTree
    /\ idx = 1
    /\ existing_specs_present = FALSE
    /\ completed_agents = << >>
    /\ pc = "loop"
    /\ status = "running"
    /\ filtered_top_level = {}
    /\ preserve_existing_specs = FALSE
    /\ archive = "absent"
    /\ cleanup_zip = FALSE
    /\ temp_dir = FALSE
    /\ payload_root = NoTree
    /\ flatten_applied = FALSE
    /\ local_template_dir = FALSE
    /\ remaining = {}
    /\ source = NoTree
    /\ pre = NoTree
    /\ failed = "none"
    /\ interrupted = "none"
    /\ log = << >>
    /\ RelocAuxInit /\ ChmodAuxInit /\ VariantAuxInit /\ RestAuxInit
    /\ script_type \in {"sh", "ps"}
    /\ release = "none"
    /\ assets = << >>
    /\ asset = NoAsset
    /\ requests = << >>

\* lines 549-571: the one request for the latest release, and its outcome
FetchRelease ==
    /\ pc = "resolve"
    /\ requests' = Append(requests, <<idx, "release">>)
    /\ \E r \in LookupResults :
         /\ release' = r
         /\ IF r = "ok"
            THEN /\ \E l \in Listings : assets' = l
                 /\ pc' = "select"
                 /\ UNCHANGED failed
            ELSE /\ pc' = LookupFailure
                 /\ failed' = "resolve"
                 /\ UNCHANGED assets
    /\ UNCHANGED <<config, tree, loopState, status, callArgs, archive, cleanup_zip,
                   temp_dir, payload_root, flatten_applied, local_template_dir,
                   remaining, source, pre, interrupted, log, relocAux, chmodAux,
                   variantAux, restAux, script_type, asset>>

\* lines 573-591: the asset is chosen; without one, typer.Exit(1)
SelectAsset ==
    /\ pc = "select"
    /\ asset' = FirstAsset(MatchingAssets(assets,
                                          Pattern(selected_ais[idx], script_type)))
    /\ IF asset' = NoAsset
       THEN pc' = "raised" /\ failed' = "resolve"
       ELSE pc' = "request" /\ UNCHANGED failed
    /\ UNCHANGED <<config, tree, loopState, status, callArgs, archive, cleanup_zip,
                   temp_dir, payload_root, flatten_applied, local_template_dir,
                   remaining, source, pre, interrupted, log, relocAux, chmodAux,
                   variantAux, restAux, script_type, release, assets, requests>>

\* lines 602-614 and 635-641: the one request for the asset; it fails before
\* the archive file is opened, or the file is opened and the body streams
RequestAsset ==
    /\ pc = "request"
    /\ requests' = Append(requests, <<idx, "asset">>)
    /\ \E r \in {"transport_error", "non200", "ok"} :
         IF r = "ok"
         THEN archive' = "partial" /\ pc' = "download" /\ UNCHANGED failed
         ELSE pc' = "raised" /\ failed' = "resolve" /\ UNCHANGED archive
    /\ UNCHANGED <<config, tree, loopState, status, callArgs, cleanup_zip,
                   temp_dir, payload_root, flatten_applied, local_template_dir,
                   remaining, source, pre, interrupted, log, relocAux, chmodAux,
                   variantAux, restAux, script_type, release, assets, asset>>

NextFetch ==
    \/ BeginAgent
    \/ FetchRelease
    \/ SelectAsset
    \/ RequestAsset
    \/ DownloadFail
    \/ DownloadDone
    \/ EnterTry
    \/ Extract
    \/ ExtractFail
    \/ MergeItem
    \/ MergeIOError
    \/ MergeDone
    \/ Except
    \/ AgentReturn
    \/ InitExcept
    \/ Interrupt
    \/ Relocate
    \/ Chmod
    \/ Finalize

SpecFetch == InitFetch /\ [][NextFetch]_vars

\* ---------------------------- find_agent_template_variant, checked on its own

\* line 374: None
NoVariant == EntryName("none", "", "", << >>)

\* the code points of the characters that names differ in
Ord == ("-" :> 45) @@ ("." :> 46) @@ ("0" :> 48) @@ ("1" :> 49) @@ ("2" :> 50)
       @@ ("i" :> 105) @@ ("p" :> 112) @@ ("v" :> 118) @@ ("z" :> 122)

\* a < b for two strings, as Python compares them
RECURSIVE StrLess(_, _)
StrLess(a, b) ==
    IF a = << >> THEN b # << >>
    ELSE IF b = << >> THEN FALSE
    ELSE IF Ord[Head(a)] # Ord[Head(b)] THEN Ord[Head(a)] < Ord[Head(b)]
    ELSE StrLess(Tail(a), Tail(b))

\* the order of two entries of one directory whose names differ in rest only
PathLess(x, y) == StrLess(x.rest, y.rest)

DotZip == <<".", "z", "i", "p">>

\* the names a template directory may hold
VariantNames ==
    {EntryName("sdd", "claude", "sh", r) :
        r \in {<< >>, <<"-", "v", "1">>, <<"-", "v", "2">>, <<"-", "v", "1", "0">>}}
    \cup {EntryName("spec-kit-template", "claude", "sh", r) :
        r \in {DotZip, <<"-", "v", "1">> \o DotZip, <<"-", "v", "2">> \o DotZip}}
    \cup {EntryName("sdd", "copilot", "sh", << >>),
          EntryName("spec-kit-template", "claude", "ps", DotZip)}

\* a template directory: some of the names, each a directory or a regular file
VariantDirs ==
    UNION {[names -> {"dir", "file"}] : names \in SUBSET VariantNames}

\* base_dir.glob(pattern) for the four patterns of lines 355-358 and 365-368
GlobDirExact(l, agent, st) ==
    {n \in DOMAIN l : n.family = "sdd" /\ n.agent = agent /\ n.script = st
                      /\ n.rest = << >>}
GlobDirVersioned(l, agent, st) ==
    {n \in DOMAIN l : n.family = "sdd" /\ n.agent = agent /\ n.script = st
                      /\ n.rest # << >> /\ Head(n.rest) = "-"}
GlobZipExact(l, agent, st) ==
    {n \in DOMAIN l : n.family = "spec-kit-template" /\ n.agent = agent
                      /\ n.script = st /\ n.rest = DotZip}
GlobZipVersioned(l, agent, st) ==
    {n \in DOMAIN l : n.family = "spec-kit-template" /\ n.agent = agent
                      /\ n.script = st /\ Len(n.rest) >= 5 /\ Head(n.rest) = "-"
                      /\ SubSeq(n.rest, Len(n.rest) - 3, Len(n.rest)) = DotZip}

\* sorted(candidates)
RECURSIVE Sorted(_)
Sorted(S) ==
    IF S = {} THEN << >>
    ELSE LET least == CHOOSE x \in S : \A y \in S \ {x} : PathLess(x, y)
         IN  <<least>> \o Sorted(S \ {least})

\* an iteration in sorted order
Unreversed(q) == q

\* reversed(candidates)
Reversed(q) == [i \in DOMAIN q |-> q[Len(q) + 1 - i]]

\* lines 360-363 and 370-373: the first candidate of the kind wanted, if any
RECURSIVE FirstOfKind(_, _, _)
FirstOfKind(l, q, kind) ==
    IF q = << >> THEN NoVariant
    ELSE IF l[Head(q)] = kind THEN Head(q)
    ELSE FirstOfKind(l, Tail(q), kind)

\* lines 352-374
find_agent_template_variant(l, agent, st) ==
    LET Try(S, kind) == FirstOfKind(l, Reversed(Sorted(S)), kind)
        d1 == Try(GlobDirExact(l, agent, st), "dir")
        d2 == Try(GlobDirVersioned(l, agent, st), "dir")
        z1 == Try(GlobZipExact(l, agent, st), "file")
        z2 == Try(GlobZipVersioned(l, agent, st), "file")
    IN  IF d1 # NoVariant THEN d1
        ELSE IF d2 # NoVariant THEN d2
        ELSE IF z1 # NoVariant THEN z1
        ELSE z2

\* the pass of the first agent is about to search a template directory
InitVariant ==
    /\ here = FALSE
    /\ selected_ais \in {q \in Selections : Len(q) = 1}
    /\ tree = NoTree
    /\ idx = 1
    /\ existing_specs_present = FALSE
    /\ completed_agents = << >>
    /\ pc = "resolve"
    /\ status = "running"
    /\ filtered_top_level = {}
    /\ preserve_existing_specs = FALSE
    /\ archive = "absent"
    /\ cleanup_zip = FALSE
    /\ temp_dir = FALSE
    /\ payload_root = NoTree
    /\ flatten_applied = FALSE
    /\ local_template_dir = FALSE
    /\ remaining = {}
    /\ source = NoTree
    /\ pre = NoTree
    /\ failed = "none"
    /\ interrupted = "none"
    /\ log = selected_ais
    /\ RelocAuxInit /\ ChmodAuxInit /\ RestAuxInit
    /\ script_type \in {"sh", "ps"}
    /\ release = "none"
    /\ assets = << >>
    /\ asset = NoAsset
    /\ requests = << >>
    /\ listing \in VariantDirs
    /\ found = Unset

\* line 707: the call
FindVariant ==
    /\ pc = "resolve"
    /\ found = Unset
    /\ found' = find_agent_template_variant(listing, selected_ais[idx], script_type)
    /\ UNCHANGED <<pipeline, relocAux, chmodAux, fetchAux, restAux, listing>>

NextVariant == FindVariant

SpecVariant == InitVariant /\ [][NextVariant]_vars

\* ------------------------------------- init's loop, run beside a twin of it

\* The loop head with an agent left, in the run and in a twin of it that is
\* the same run in everything but the value of existing_specs_present when an
\* agent after the first starts (lines 1319-1329)
BeginAgentTwin ==
    /\ pc = "loop"
    /\ idx <= Len(selected_ais)
    /\ filtered_top_level' = TopLevelFilter(idx, selected_ais[idx])
    /\ preserve_existing_specs' =
            PreserveSpecs(idx, selected_ais[idx], existing_specs_present)
    /\ \E f \in BOOLEAN :
         /\ idx = 1 => f = existing_specs_present
         /\ twin_present' = f
         /\ twin_preserve' = PreserveSpecs(idx, selected_ais[idx], f)
    /\ cleanup_zip' = FALSE
    /\ local_template_dir' = FALSE
    /\ flatten_applied' = FALSE
    /\ log' = Append(log, selected_ais[idx])
    /\ pc' = "resolve"
    /\ UNCHANGED <<relocAux, chmodAux, fetchAux, variantAux, config, tree, loopState,
                   status, archive, temp_dir, payload_root, remaining, source, pre,
                   failed, interrupted, selfAux, guardAux, lateAux>>

\* the runs on a project that holds little: no directory, an empty one, or
\* .specs alone
InitTwin == Init /\ Cardinality(DOMAIN tree) <= 3

NextTwin ==
    \/ BeginAgentTwin
    \/ ResolveFail
    \/ ResolveLocalDirectory
    \/ ResolveLocalArchive
    \/ EnterTry
    \/ Extract
    \/ ExtractFail
    \/ MergeItem
    \/ MergeIOError
    \/ MergeDone
    \/ Except
    \/ AgentReturn
    \/ InitExcept
    \/ Relocate
    \/ Chmod
    \/ Finalize

SpecTwin == InitTwin /\ [][NextTwin]_vars

\* ------------------ a merge pass whose payload lies in the project directory

\* the payload src, in which the entries named in names are those of the
\* project directory t themselves (the template path is the project directory,
\* or the entry is a link to the project's)
Aliased(src, t, names) ==
    LET own == {p \in DOMAIN src : p = << >> \/ Head(p) \notin names}
        mine == {p \in DOMAIN t : p # << >> /\ Head(p) \in names}
    IN  [p \in own \cup mine |-> IF p \in mine THEN t[p] ELSE src[p]]

\* the pass of the first agent, in place, is about to list a local template
\* directory
InitSelf ==
    /\ here = TRUE
    /\ selected_ais \in {q \in Selections : Len(q) = 1}
    /\ tree \in ExistingTrees
    /\ idx = 1
    /\ existing_specs_present = Exists(tree, <<SPECS>>)
    /\ completed_agents = << >>
    /\ pc = "extract"
    /\ status = "running"
    /\ filtered_top_level = TopLevelFilter(1, selected_ais[1])
    /\ preserve_existing_specs =
            PreserveSpecs(1, selected_ais[1], Exists(tree, <<SPECS>>))
    /\ archive = "absent"
    /\ cleanup_zip = FALSE
    /\ temp_dir = FALSE
    /\ payload_root = NoTree
    /\ flatten_applied = FALSE
    /\ local_template_dir = TRUE
    /\ remaining = {}
    /\ source = NoTree
    /\ pre = NoTree
    /\ failed = "none"
    /\ interrupted = "none"
    /\ log = selected_ais
    /\ RelocAuxInit /\ ChmodAuxInit /\ FetchAuxInit /\ VariantAuxInit
    /\ TwinAuxInit /\ SelfAuxInit /\ GuardAuxInit /\ LateAuxInit

\* lines 837-842 and 788-800: the template directory is listed and the
\* payload root chosen; some of its entries are the project's own.  An entry
\* of a payload root that the flatten rule took from inside the source lies
\* one level down and is no entry of the project directory.
ExtractAliased ==
    /\ pc = "extract"
    /\ \E src \in Sources[selected_ais[idx]] \cup {EmptyDir} :
         \E names \in SUBSET TopLevelNames(tree) :
            LET payload == Aliased(src, tree, names)
            IN  /\ source' = payload
                /\ payload_root' = PayloadRoot(payload)
                /\ flatten_applied' = SingleDirectory(payload)
                /\ self_entries' = IF SingleDirectory(payload) THEN {} ELSE names
                /\ remaining' = {n \in TopLevelNames(PayloadRoot(payload)) :
                                    ~Skipped(n, filtered_top_level)}
    /\ pre' = tree
    /\ pc' = "merge"
    /\ UNCHANGED <<relocAux, chmodAux, fetchAux, variantAux, twinAux, guardAux,
                   lateAux, config, tree, loopState, status, callArgs, archive, cleanup_zip,
                   temp_dir, local_template_dir, failed, log, interrupted>>

NextSelf ==
    \/ ExtractAliased
    \/ MergeItem
    \/ MergeDone
    \/ Except
    \/ InitExcept

SpecSelf == InitSelf /\ [][NextSelf]_vars

\* ------------------------------------------ init, from its check of the target

\* init is called: with --here on a directory that exists, or with the name of
\* a project whose directory exists or not
InitGuard ==
    /\ here \in BOOLEAN
    /\ selected_ais \in Selections
    /\ tree \in {t \in ExistingTrees \cup {NoTree} :
                    /\ Cardinality(DOMAIN t) <= 3
                    /\ here => t # NoTree}
    /\ idx = 1
    /\ existing_specs_present = FALSE
    /\ completed_agents = << >>
    /\ pc = "start"
    /\ status = "running"
    /\ filtered_top_level = {}
    /\ preserve_existing_specs = FALSE
    /\ archive = "absent"
    /\ cleanup_zip = FALSE
    /\ temp_dir = FALSE
    /\ payload_root = NoTree
    /\ flatten_applied = FALSE
    /\ local_template_dir = FALSE
    /\ remaining = {}
    /\ source = NoTree
    /\ pre = NoTree
    /\ failed = "none"
    /\ interrupted = "none"
    /\ log = << >>
    /\ RelocAuxInit /\ ChmodAuxInit /\ FetchAuxInit /\ VariantAuxInit
    /\ TwinAuxInit /\ SelfAuxInit /\ LateAuxInit
    /\ target_before = tree

\* a check that lets every target pass
NoConflict(h, t) == FALSE

\* lines 1109-1111: a project directory is asked for and its path exists
DirectoryConflict(h, t) == ~h /\ DOMAIN t # {}

\* lines 1091-1122 and 1316: the target is checked.  A project whose directory
\* exists is refused with exit status 1.  In place, when the directory holds
\* something, the user may decline and init ends with exit status 0.
\* Otherwise the run goes on to the agent loop.
CheckTarget ==
    /\ pc = "start"
    /\ \E proceed \in BOOLEAN :
         IF DirectoryConflict(here, tree)
         THEN status' = "failure" /\ pc' = "done"
              /\ UNCHANGED existing_specs_present
         ELSE IF here /\ Children(tree, << >>) # {} /\ ~proceed
         THEN status' = "cancelled" /\ pc' = "done"
              /\ UNCHANGED existing_specs_present
         ELSE /\ pc' = "loop"
              /\ existing_specs_present' = Exists(tree, <<SPECS>>)
              /\ UNCHANGED status
    /\ UNCHANGED <<aux, config, tree, idx, completed_agents, callArgs, archive,
                   cleanup_zip, temp_dir, payload_root, flatten_applied,
                   local_template_dir, remaining, history>>

NextGuard ==
    \/ CheckTarget
    \/ BeginAgent
    \/ ResolveFail
    \/ ResolveLocalDirectory
    \/ ResolveLocalArchive
    \/ DownloadStart
    \/ DownloadFail
    \/ DownloadDone
    \/ EnterTry
    \/ Extract
    \/ ExtractFail
    \/ MergeItem
    \/ MergeIOError
    \/ MergeDone
    \/ Except
    \/ AgentReturn
    \/ InitExcept
    \/ Interrupt
    \/ Relocate
    \/ Chmod
    \/ Finalize

SpecGuard == InitGuard /\ [][NextGuard]_vars

\* ---------------------------------------------------------------- StepTracker

StepKeys == {"fetch", "extract", "chmod"}
StepLabels == {"Fetch latest release"}
StepDetails == {"", "ok"}

\* the keys of the steps, in the order of the list
Keys(ss) == [i \in 1..Len(ss) |-> ss[i].key]

KeySet(ss) == {ss[i].key : i \in 1..Len(ss)}

\* an add that does not look for the key
AddAlways(ss, key, label) ==
    Append(ss, [key |-> key, label |-> label, status |-> "pending", detail |-> ""])

\* lines 129-132
add(ss, key, label) ==
    IF key \notin KeySet(ss)
    THEN Append(ss, [key |-> key, label |-> label, status |-> "pending", detail |-> ""])
    ELSE ss

\* lines 146-156: the first step of that key takes the status, and the detail
\* when one is given; without such a step one is appended, labelled by its key
_update(ss, key, st, detail) ==
    IF \E i \in 1..Len(ss) : ss[i].key = key
    THEN LET i == CHOOSE j \in 1..Len(ss) :
                     /\ ss[j].key = key
                     /\ \A k \in 1..(j - 1) : ss[k].key # key
         IN  [ss EXCEPT ![i] = [@ EXCEPT !.status = st,
                                         !.detail = IF detail # "" THEN detail ELSE @]]
    ELSE Append(ss, [key |-> key, label |-> key, status |-> st, detail |-> detail])

\* lines 134-144: the status each call sets
StatusOf ==
    [start |-> "running", complete |-> "done", error |-> "error", skip |-> "skipped"]

Updates == DOMAIN StatusOf

InitTracker ==
    /\ Init
    /\ tree = NoTree /\ here = FALSE
    /\ selected_ais = CHOOSE q \in Selections : Len(q) = 1

Add ==
    /\ \E key \in StepKeys, label \in StepLabels :
         /\ steps' = add(steps, key, label)
         /\ call' = [op |-> "add", key |-> key]
    /\ UNCHANGED <<pipeline, relocAux, chmodAux, fetchAux, variantAux, twinAux,
                   selfAux, guardAux, parseAux, tokenAux, rerunAux>>

Update ==
    /\ \E op \in Updates, key \in StepKeys, detail \in StepDetails :
         /\ steps' = _update(steps, key, StatusOf[op], detail)
         /\ call' = [op |-> op, key |-> key]
    /\ UNCHANGED <<pipeline, relocAux, chmodAux, fetchAux, variantAux, twinAux,
                   selfAux, guardAux, parseAux, tokenAux, rerunAux>>

NextTracker == Add \/ Update

SpecTracker == InitTracker /\ [][NextTracker]_vars

\* ------------------------------------------------------- the values of --ai

\* A text is a sequence of pieces: an agent name written in lower case, the
\* same name written with upper-case letters, or a punctuation character.
L(t) == [text |-> t, upper |-> FALSE]
U(t) == [text |-> t, upper |-> TRUE]

Whitespace == {L(" ")}
Separators == {L(" "), L(",")}
Wrappers == {L("["), L("]"), L("'")}

IsWord(c) == c \notin Separators \cup Wrappers

\* str.lower() leaving the case as it is
KeepCase(c) == c

\* str.lower()
lower(c) == [c EXCEPT !.upper = FALSE]

RECURSIVE LStrip(_, _)
LStrip(x, cs) == IF x # << >> /\ Head(x) \in cs THEN LStrip(Tail(x), cs) ELSE x

RECURSIVE RStrip(_, _)
RStrip(x, cs) ==
    IF x # << >> /\ x[Len(x)] \in cs THEN RStrip(SubSeq(x, 1, Len(x) - 1), cs) ELSE x

\* str.strip(cs)
strip(x, cs) == RStrip(LStrip(x, cs), cs)

\* line 324, re.split(r"[\s,]+", token) without its empty segments: the
\* maximal runs of pieces that are no separator; cur is the run being read
RECURSIVE Segments(_, _)
Segments(x, cur) ==
    LET done == IF cur = << >> THEN << >> ELSE <<cur>>
    IN  IF x = << >> THEN done
        ELSE IF Head(x) \in Separators THEN done \o Segments(Tail(x), << >>)
        ELSE Segments(Tail(x), Append(cur, Head(x)))

\* lines 315-325
_tokenize_ai_value(raw) ==
    LET token == strip(raw, Whitespace)
        inner == IF token # << >> /\ Head(token) = L("[") /\ token[Len(token)] = L("]")
                 THEN SubSeq(token, 2, Len(token) - 1)
                 ELSE token
        segs  == Segments(inner, << >>)
        parts == [i \in 1..Len(segs) |-> strip(strip(segs[i], Whitespace), Wrappers)]
        kept  == SelectSeq(parts, LAMBDA part : part # << >>)
    IN  [i \in 1..Len(kept) |-> [j \in 1..Len(kept[i]) |-> lower(kept[i][j])]]

Range(q) == {q[i] : i \in 1..Len(q)}

\* lines 333-336: the tokens not seen yet are appended in their order
RECURSIVE AppendUnseen(_, _)
AppendUnseen(ordered, tokens) ==
    IF tokens = << >> THEN ordered
    ELSE AppendUnseen(IF Head(tokens) \in Range(ordered) THEN ordered
                      ELSE Append(ordered, Head(tokens)),
                      Tail(tokens))

\* lines 328-337
RECURSIVE ParseFrom(_, _)
ParseFrom(ordered, raw_values) ==
    IF raw_values = << >> THEN ordered
    ELSE ParseFrom(AppendUnseen(ordered, _tokenize_ai_value(Head(raw_values))),
                   Tail(raw_values))

parse_ai_option_values(raw_values) == ParseFrom(<< >>, raw_values)

\* line 1173, ai_key in AI_CHOICES: the token is the name of an agent
IsChoice(token) ==
    Len(token) = 1 /\ ~token[1].upper /\ token[1].text \in AgentPool

\* lines 1171-1181: the keys, each once
normalized_ais(keys) ==
    LET once == AppendUnseen(<< >>, keys)
    IN  [i \in 1..Len(once) |-> once[i][1].text]

\* the texts given to --ai: one or two agents in either case, alone, in a list
\* with commas or blanks, in brackets or quotes; an unknown name; a blank
RawPool ==
    {<<L(" ")>>,
     <<L("claude")>>,
     <<U("claude")>>,
     <<L(" "), U("gemini"), L(" ")>>,
     <<L("'"), L("gemini"), L("'")>>,
     <<L("gemini"), L(" "), U("claude")>>,
     <<L("claude"), L(","), L(" "), U("claude")>>,
     <<L("["), U("gemini"), L(","), L("claude"), L(","), L("gemini"), L("]")>>,
     <<L("claude"), L(","), U("bogus")>>}

MaxValues == 2

InitParse ==
    /\ here = FALSE
    /\ tree = NoTree
    /\ selected_ais = << >>
    /\ ai_assistants \in UNION {[1..n -> RawPool] : n \in 0..MaxValues}
    /\ idx = 1
    /\ existing_specs_present = FALSE
    /\ completed_agents = << >>
    /\ pc = "select"
    /\ status = "running"
    /\ filtered_top_level = {}
    /\ preserve_existing_specs = FALSE
    /\ archive = "absent"
    /\ cleanup_zip = FALSE
    /\ temp_dir = FALSE
    /\ payload_root = NoTree
    /\ flatten_applied = FALSE
    /\ local_template_dir = FALSE
    /\ remaining = {}
    /\ source = NoTree
    /\ pre = NoTree
    /\ failed = "none"
    /\ interrupted = "none"
    /\ log = << >>
    /\ RelocAuxInit /\ ChmodAuxInit /\ FetchAuxInit /\ VariantAuxInit
    /\ TwinAuxInit /\ SelfAuxInit /\ GuardAuxInit /\ TrackerAuxInit /\ TokenAuxInit
    /\ RerunAuxInit

\* lines 1149-1181: the agents of the run.  Without a key from --ai they are
\* chosen at the terminal, one after the other among those not chosen yet, or
\* the default is taken; a key that is no agent ends init with exit status 1.
SelectAgents ==
    /\ pc = "select"
    /\ LET keys == parse_ai_option_values(ai_assistants)
       IN  IF keys = << >>
           THEN /\ selected_ais' \in Selections
                /\ pc' = "loop"
                /\ UNCHANGED status
           ELSE IF \E i \in 1..Len(keys) : ~IsChoice(keys[i])
           THEN /\ status' = "failure"
                /\ pc' = "done"
                /\ UNCHANGED selected_ais
           ELSE /\ selected_ais' = normalized_ais(keys)
                /\ pc' = "loop"
                /\ UNCHANGED status
    /\ UNCHANGED <<aux, here, tree, loopState, callArgs, archive, cleanup_zip,
                   temp_dir, payload_root, flatten_applied, local_template_dir,
                   remaining, history>>

\* the run with templates taken from a local directory
NextParse ==
    \/ SelectAgents
    \/ BeginAgent
    \/ ResolveFail
    \/ ResolveLocalDirectory
    \/ EnterTry
    \/ Extract
    \/ ExtractFail
    \/ MergeItem
    \/ MergeIOError
    \/ MergeDone
    \/ Except
    \/ AgentReturn
    \/ InitExcept
    \/ Relocate
    \/ Chmod
    \/ Finalize

SpecParse == InitParse /\ [][NextParse]_vars

\* ------------------------------------------------------------ the GitHub token

MaxTokenLen == 2

\* the texts of a token: blanks and two letters
TokenTexts ==
    UNION {[1..n -> {L(" "), L("x"), L("y")}] : n \in 0..MaxTokenLen}

\* Python's truth of an optional text
Truthy(v) == v # None /\ v # << >>

\* a or b
Or(a, b) == IF Truthy(a) THEN a ELSE b

\* lines 58-60
_github_token(cli, env) ==
    LET token == strip(Or(Or(Or(cli, env.GH_TOKEN), env.GITHUB_TOKEN), << >>), Whitespace)
    IN  IF Truthy(token) THEN token ELSE None

Bearer(token) == <<L("Bearer"), L(" ")>> \o token

\* lines 62-65: the headers, a set of pairs of a name and a value
_github_auth_headers(cli, env) ==
    LET token == _github_token(cli, env)
    IN  IF Truthy(token) THEN {<<"Authorization", Bearer(token)>>} ELSE {}

\* the requests of a download: the lookup of the release and the asset's
MaxRequests == 2

InitToken ==
    /\ here = FALSE
    /\ tree = NoTree
    /\ selected_ais = CHOOSE q \in Selections : Len(q) = 1
    /\ idx = 1
    /\ existing_specs_present = FALSE
    /\ completed_agents = << >>
    /\ pc = "loop"
    /\ status = "running"
    /\ filtered_top_level = {}
    /\ preserve_existing_specs = FALSE
    /\ archive = "absent"
    /\ cleanup_zip = FALSE
    /\ temp_dir = FALSE
    /\ payload_root = NoTree
    /\ flatten_applied = FALSE
    /\ local_template_dir = FALSE
    /\ remaining = {}
    /\ source = NoTree
    /\ pre = NoTree
    /\ failed = "none"
    /\ interrupted = "none"
    /\ log = << >>
    /\ RelocAuxInit /\ ChmodAuxInit /\ FetchAuxInit /\ VariantAuxInit
    /\ TwinAuxInit /\ SelfAuxInit /\ GuardAuxInit /\ TrackerAuxInit /\ ParseAuxInit
    /\ RerunAuxInit
    /\ cli_token \in TokenTexts \cup {None}
    /\ environ \in [GH_TOKEN : TokenTexts \cup {None}, GITHUB_TOKEN : TokenTexts \cup {None}]
    /\ sent = << >>

\* lines 554-557 and 604-609: a request is made with the headers of the token
SendRequest ==
    /\ Len(sent) < MaxRequests
    /\ sent' = Append(sent, _github_auth_headers(cli_token, environ))
    /\ UNCHANGED <<pipeline, relocAux, chmodAux, fetchAux, variantAux, twinAux,
                   selfAux, guardAux, trackerAux, parseAux, rerunAux, cli_token,
                   environ>>

NextToken == SendRequest

SpecToken == InitToken /\ [][NextToken]_vars

\* --------------------------------------------- init run twice on a directory

\* init --here on a directory that exists: one agent on a small directory, or
\* claude and another agent on an empty one
InitRerun ==
    /\ Init
    /\ here
    /\ Cardinality(DOMAIN tree) <= 3
    /\ Len(selected_ais) > 1 => tree = EmptyDir /\ selected_ais[1] = "claude"

\* lines 816-845 in either run: the second run is given, for each agent, the
\* payload the first run had
ExtractSame ==
    /\ pc = "extract"
    /\ \E src \in Sources[selected_ais[idx]] :
         /\ run > 1 => src = payloads[selected_ais[idx]]
         /\ payloads' = IF run > 1 THEN payloads
                        ELSE payloads @@ (selected_ais[idx] :> src)
         /\ source' = src
         /\ payload_root' = PayloadRoot(src)
         /\ flatten_applied' = SingleDirectory(src)
         /\ remaining' = {n \in TopLevelNames(PayloadRoot(src)) :
                            ~Skipped(n, filtered_top_level)}
    /\ pre' = tree
    /\ pc' = "merge"
    /\ UNCHANGED <<relocAux, chmodAux, fetchAux, variantAux, twinAux, selfAux,
                   guardAux, trackerAux, parseAux, tokenAux, run, first_tree,
                   config, tree, loopState, status, callArgs, archive, cleanup_zip,
                   temp_dir, local_template_dir, failed, log, interrupted>>

\* init is called again, in place, with the same agents, after a run that
\* ended with success (lines 1091-1108 and 1316: the directory is taken as it is)
RunAgain ==
    /\ pc = "done"
    /\ status = "success"
    /\ run = 1
    /\ run' = run + 1
    /\ first_tree' = tree
    /\ idx' = 1
    /\ existing_specs_present' = Exists(tree, <<SPECS>>)
    /\ completed_agents' = << >>
    /\ pc' = "loop"
    /\ status' = "running"
    /\ archive' = "absent"
    /\ local_template_dir' = FALSE
    /\ log' = << >>
    /\ UNCHANGED <<relocAux, chmodAux, fetchAux, variantAux, twinAux, selfAux,
                   guardAux, trackerAux, parseAux, tokenAux, payloads, config, tree,
                   callArgs, cleanup_zip, temp_dir, payload_root, flatten_applied,
                   remaining, source, pre, failed, interrupted>>

\* two runs that succeed, with templates from a local directory
NextRerun ==
    \/ BeginAgent
    \/ ResolveLocalDirectory
    \/ EnterTry
    \/ ExtractSame
    \/ MergeItem
    \/ MergeDone
    \/ AgentReturn
    \/ Relocate
    \/ Chmod
    \/ Finalize
    \/ RunAgain

SpecRerun == InitRerun /\ [][NextRerun]_vars

\* ------------------------------------------------------------------- claims

\* the merge pass of the current agent is under way, has returned or has
\* raised; pre is the project tree it began with, payload_root what it merges
InPass == pc \in {"merge", "returned"} \/ (pc = "except" /\ failed = "merge")

\* the preserve rule applies to the pass: the flag is set and the project held
\* a .specs when the pass began
PreserveApplies == preserve_existing_specs /\ Exists(pre, <<SPECS>>)

UnderSpecs(p) == IsPrefix(<<SPECS>>, p)

\* C1: in a merge pass with preserve_existing_specs set and an existing .specs
\* in the project, everything that existed under .specs before the pass is
\* there unchanged at every point of the pass, whatever the payload; and every
\* path the pass added under .specs did not exist before and holds what the
\* payload holds at that path.
C1_NoClobber ==
    InPass /\ PreserveApplies =>
        /\ \A p \in DOMAIN pre :
             UnderSpecs(p) => Exists(tree, p) /\ tree[p] = pre[p]
        /\ \A p \in DOMAIN tree :
             UnderSpecs(p) /\ ~Exists(pre, p) =>
                Exists(payload_root, p) /\ tree[p] = payload_root[p]

\* a pass that returned kept the old .specs/foo.md against a payload that holds
\* one too, and added a file of the payload beside it
C1_Witness ==
    /\ pc = "returned"
    /\ PreserveApplies
    /\ IsFile(pre, <<SPECS, "foo.md">>)
    /\ IsFile(payload_root, <<SPECS, "foo.md">>)
    /\ payload_root[<<SPECS, "foo.md">>] # pre[<<SPECS, "foo.md">>]
    /\ tree[<<SPECS, "foo.md">>] = OLD
    /\ ~Exists(pre, <<SPECS, "sub">>)
    /\ IsFile(tree, <<SPECS, "sub", "foo.md">>)

\* C2: after a merge pass that returned, every file of the payload that the
\* filter lets through and that is not under a .specs the preserve rule
\* protects is a file of the project at the same path with the payload's
\* content, whatever the project held before.
C2_OverwriteDefault ==
    pc = "returned" =>
        \A p \in Files(payload_root) :
            /\ ~Skipped(p[1], filtered_top_level)
            /\ ~(PreserveApplies /\ UnderSpecs(p))
            => IsFile(tree, p) /\ tree[p] = payload_root[p]

\* C3: in the pass of an agent after the first the filter is the agent's own
\* root name, and every path of the project outside that root (the shared
\* .specs included) is at every point of the pass what it was before the pass:
\* none is created, changed or removed.
C3_AgentIsolation ==
    InPass /\ idx > 1 =>
        /\ filtered_top_level = {AGENT_ROOT_NAMES[selected_ais[idx]]}
        /\ \A p \in (DOMAIN tree \cup DOMAIN pre) \ {<< >>} :
             p[1] \notin filtered_top_level =>
                Exists(tree, p) /\ Exists(pre, p) /\ tree[p] = pre[p]
        /\ tree[<< >>] = pre[<< >>]

\* the second agent's pass returned: its payload held a .specs and a README,
\* the project took neither and took the file under the agent's root
C3_Witness ==
    /\ pc = "returned"
    /\ idx = 2
    /\ Exists(payload_root, <<SPECS, "foo.md">>)
    /\ Exists(payload_root, <<"README">>)
    /\ ~Exists(tree, <<"README">>)
    /\ ~Exists(pre, <<AGENT_ROOT_NAMES[selected_ais[2]], "bar.md">>)
    /\ IsFile(tree, <<AGENT_ROOT_NAMES[selected_ais[2]], "bar.md">>)

C5_NeverDeletes ==
    InPass =>
        \A p \in DOMAIN pre :
            /\ Exists(tree, p)
            /\ (tree[p] = DIR) = (pre[p] = DIR)
            /\ tree[p] # pre[p] =>
                  pre[p] # DIR /\ ~(PreserveApplies /\ UnderSpecs(p))

\* a pass over a project that held files overwrote one in place, kept one the
\* payload does not hold in a directory it copied into, and added a path
C5_Witness ==
    /\ pc = "returned"
    /\ IsFile(pre, <<".github", "bar.md">>)
    /\ tree[<<".github", "bar.md">>] # pre[<<".github", "bar.md">>]
    /\ IsFile(pre, <<".github", "old.md">>)
    /\ ~Exists(payload_root, <<".github", "old.md">>)
    /\ tree[<<".github", "old.md">>] = pre[<<".github", "old.md">>]
    /\ \E p \in DOMAIN tree : ~Exists(pre, p)

\* the stages whose failure is fatal to an agent's pass
AgentStages == {"resolve", "extract", "merge"}

\* C6: a failure of resolution, extraction or merge, for the first agent or a
\* later one, ends the run: no further agent is processed and init ends with
\* the failure status.  Then a target the run created does not exist any more,
\* with everything earlier agents merged into it; a target used in place
\* exists at every point of every run.
C6_FailureCleanup ==
    /\ failed \in AgentStages => pc \in {"except", "raised", "done"}
    /\ pc = "done" /\ failed \in AgentStages =>
          /\ status = "failure"
          /\ ~here => DOMAIN tree = {}
    /\ here => DOMAIN tree # {}

\* the second agent's merge failed in a run that had created the project and
\* merged the first agent into it; nothing is left
C6_Witness ==
    /\ pc = "done"
    /\ status = "failure"
    /\ failed = "merge"
    /\ ~here
    /\ idx = 2
    /\ Len(completed_agents) = 1
    /\ DOMAIN pre # {<< >>}
    /\ DOMAIN tree = {}

\* C7: the staging directory exists only for an archive source and only
\* between the start of the try block and its finally clause: not once
\* download_and_extract_template has returned or raised, whether the merge
\* succeeded, the extraction or the merge failed, or the run was interrupted.
C7_StagingReleased ==
    temp_dir => ~local_template_dir /\ pc \in {"extract", "merge", "except"}

\* a run interrupted while it merged an extracted archive
C7_Witness ==
    /\ pc = "done"
    /\ interrupted = "merge"
    /\ ~local_template_dir
    /\ ~temp_dir

\* C8: once the step of an agent has ended, on any path, no downloaded archive
\* is left in the download directory, partial or complete.
C8_ArchiveRemoved ==
    pc \in {"returned", "raised", "loop", "chmod", "final", "done"} =>
        archive = "absent"

\* C9: the passes begun are those of the selected agents in selection order,
\* one each; relocation and permission normalisation are begun once each, in
\* that order, after the pass of every selected agent has returned; a run that
\* succeeds has done all of it; a run in which an agent's pass failed has
\* begun neither post-step.
C9_Order ==
    LET full == selected_ais \o <<"relocate", "chmod">>
        post == {i \in DOMAIN log : log[i] \in {"relocate", "chmod"}}
    IN  /\ Len(log) <= Len(full)
        /\ log = SubSeq(full, 1, Len(log))
        /\ Len(completed_agents) <= Len(selected_ais)
        /\ completed_agents = SubSeq(selected_ais, 1, Len(completed_agents))
        /\ post # {} => completed_agents = selected_ais
        /\ status = "success" => log = full
        /\ failed \in AgentStages => post = {}

\* a run of two agents that succeeded
C9_Witness ==
    /\ status = "success"
    /\ Len(selected_ais) = 2
    /\ completed_agents = selected_ais
    /\ log = selected_ais \o <<"relocate", "chmod">>

\* the single directory at the root of a source that holds nothing else
Inner(s) == Subtree(s, CHOOSE c \in Children(s, << >>) : TRUE)

\* the pass has begun and no entry has been merged yet
PassBegins == pc = "merge" /\ tree = pre /\ source # NoTree

\* C10 as stated: for a source whose root holds exactly one entry, a
\* directory, the merge has the outcomes that the merge of that directory
\* given as the source has, and a pass that returned left one of those.
C10_FlattenIdempotence ==
    source # NoTree /\ SingleDirectory(source) =>
        /\ PassBegins =>
              MergeRun(pre, source, filtered_top_level, preserve_existing_specs)
              = MergeRun(pre, Inner(source), filtered_top_level,
                         preserve_existing_specs)
        /\ pc = "returned" =>
              Ok(tree) \in MergeRun(pre, Inner(source), filtered_top_level,
                                    preserve_existing_specs)

\* C10, amended: the same, for an inner directory that does not itself hold
\* exactly one entry that is a directory (the flatten rule descends one level
\* and would descend again into such a directory given as the source).
C10_FlattenOneLevel ==
    /\ source # NoTree
    /\ SingleDirectory(source)
    /\ ~SingleDirectory(Inner(source))
    => /\ PassBegins =>
             MergeRun(pre, source, filtered_top_level, preserve_existing_specs)
             = MergeRun(pre, Inner(source), filtered_top_level,
                        preserve_existing_specs)
       /\ pc = "returned" =>
             Ok(tree) \in MergeRun(pre, Inner(source), filtered_top_level,
                                   preserve_existing_specs)

\* a pass that returned merged a source wrapped in one directory
C10_Witness ==
    /\ pc = "returned"
    /\ flatten_applied
    /\ source # NoTree
    /\ SingleDirectory(source)
    /\ ~SingleDirectory(Inner(source))
    /\ payload_root = Inner(source)
    /\ tree # pre

\* relocate_non_agent_directories has run, from the tree pre, and init's
\* handler has not yet acted on what it left
Relocated == pc \in {"chmod", "final"} \/ (pc = "raised" /\ failed = "relocate")

UnderCanonical(p) == IsPrefix(get_specify_root, p)

\* C11: a second run of relocate_non_agent_directories, right after a first
\* run that returned, returns and leaves the project tree as the first run
\* left it.
C11_RelocationIdempotent ==
    again # << >> /\ failed = "none" =>
        again[1].ok /\ again[1].t = tree

\* C12: relocate_non_agent_directories raises nothing, whatever the project
\* tree holds; a run of init that reached relocation ends successfully and
\* the project directory is kept.
C12_BestEffort ==
    /\ failed # "relocate"
    /\ pc = "done" /\ (\E i \in DOMAIN log : log[i] = "relocate") =>
          status = "success" /\ DOMAIN tree # {}

\* C13: whatever relocate_non_agent_directories does, returning or raising,
\* every path that existed under the canonical root before it is there
\* afterwards as it was, a directory still a directory and a file with its
\* content; so whatever was moved under the canonical root went to a path
\* where nothing existed.
C13_RelocationNoOverwrite ==
    Relocated =>
        \A p \in DOMAIN pre :
            UnderCanonical(p) => Exists(tree, p) /\ tree[p] = pre[p]

\* a relocation met the same file under the legacy root and under the
\* canonical root, kept the canonical one, left the legacy one where it was
\* and moved another legacy file in
C13_Witness ==
    LET docs == get_specify_root \o <<"docs", "foo.md">>
        foo == get_specify_root \o <<"foo.md">>
    IN  /\ Relocated
        /\ IsFile(pre, docs) /\ IsFile(pre, <<SPECIFY, "docs", "foo.md">>)
        /\ pre[docs] # pre[<<SPECIFY, "docs", "foo.md">>]
        /\ tree[docs] = pre[docs]
        /\ IsFile(tree, <<SPECIFY, "docs", "foo.md">>)
        /\ IsFile(pre, <<SPECIFY, "foo.md">>) /\ ~Exists(pre, foo)
        /\ IsFile(tree, foo) /\ tree[foo] = pre[<<SPECIFY, "foo.md">>]

\* the walk of ensure_executable_scripts has dealt with entry n
Processed(n) ==
    /\ pc \in {"chmod_loop", "final", "done"}
    /\ n \in DOMAIN scripts_before
    /\ n \notin pending

\* C14: whenever the normalizer has applied a mode to a file whose mode had no
\* execute bit, the new mode is the old mode plus owner-execute, plus
\* group-execute exactly when group-read was set, plus other-execute exactly
\* when other-read was set, and every bit of the old mode is still set.
C14_ModeDerivation ==
    \A n \in DOMAIN scripts_before :
        LET old == scripts_before[n].mode
            new == scripts[n].mode
        IN  /\ Processed(n) /\ os_name = "posix" /\ IsSh(n)
            /\ scripts_before[n].kind = "file"
            /\ scripts_before[n].readable /\ scripts_before[n].shebang
            /\ ~scripts_before[n].locked
            /\ ~AnyExec(old)
            => /\ new = old + OwnerExec
                        + (IF HasBit(old, GroupRead) THEN GroupExec ELSE 0)
                        + (IF HasBit(old, OtherRead) THEN OtherExec ELSE 0)
               /\ HasBit(new, OwnerExec)
               /\ HasBit(new, GroupExec) <=> HasBit(old, GroupRead)
               /\ HasBit(new, OtherExec) <=> HasBit(old, OtherRead)
               /\ \A b \in {1, 2, 4, 8, 16, 32, 64, 128, 256, 512, 1024} :
                      HasBit(old, b) => HasBit(new, b)

\* a script in mode rw-r--r-- (0o644) was given mode rwxr-xr-x (0o755), which
\* holds every bit of rwxr--r--
C14_Witness ==
    /\ "a.sh" \in DOMAIN scripts_before
    /\ Processed("a.sh")
    /\ scripts_before["a.sh"].mode = 420
    /\ scripts["a.sh"].mode = 493
    /\ updated = 1

\* ensure_executable_scripts has returned
Normalized == pc \in {"final", "done"} /\ log[Len(log)] = "chmod"

\* C15, as the specification states it: on a POSIX system the files whose mode
\* the normalizer changes are exactly the regular files, no symlinks, under
\* the scripts directory that start with #! and have no execute bit; each of
\* them ends with an execute bit unless its chmod failed, every other entry
\* keeps its mode; on another system nothing changes.
C15_ExactlyShebangFiles ==
    Normalized =>
        IF os_name = "posix"
        THEN \A n \in DOMAIN scripts_before :
                 LET e == scripts_before[n]
                 IN  IF e.kind = "file" /\ e.shebang /\ ~AnyExec(e.mode)
                     THEN e.locked \/ AnyExec(scripts[n].mode)
                     ELSE scripts[n] = e
        ELSE scripts = scripts_before

\* C15, as the code has it: on a POSIX system the files whose mode the
\* normalizer changes are exactly the regular files, no symlinks, under the
\* scripts directory whose name ends in .sh, that can be opened for reading,
\* start with #! and have no execute bit; each of them ends with an execute
\* bit unless its chmod failed, every other entry keeps its mode; on another
\* system nothing changes.
C15_ExactlyShellScripts ==
    Normalized =>
        IF os_name = "posix"
        THEN \A n \in DOMAIN scripts_before :
                 LET e == scripts_before[n]
                 IN  IF /\ IsSh(n) /\ e.kind = "file" /\ e.readable
                        /\ e.shebang /\ ~AnyExec(e.mode)
                     THEN /\ e.locked \/ AnyExec(scripts[n].mode)
                          /\ e.locked => scripts[n] = e
                     ELSE scripts[n] = e
        ELSE scripts = scripts_before

\* on a POSIX system a shell script two levels down was made executable, while
\* a file with a shebang and another name kept its mode, as did a shell
\* script that could not be read
C15_Witness ==
    /\ Normalized /\ os_name = "posix"
    /\ DOMAIN scripts_before = ScriptNames
    /\ scripts_before["sub/b.sh"].kind = "file"
    /\ ~AnyExec(scripts_before["sub/b.sh"].mode)
    /\ AnyExec(scripts["sub/b.sh"].mode)
    /\ scripts_before["run"].shebang /\ ~AnyExec(scripts["run"].mode)
    /\ ~scripts_before["a.sh"].readable /\ scripts_before["a.sh"].shebang
    /\ scripts["a.sh"] = scripts_before["a.sh"]

\* C16: a failed chmod ends neither the walk nor the run: nothing is raised
\* while ensure_executable_scripts runs or after it; when it has returned,
\* every entry the walk yields has been dealt with, the count of updated
\* files is the number of files whose mode differs from before, the failures
\* are the scripts whose chmod failed; and the run ends successfully.
C16_FailuresCollected ==
    /\ failed = "none" /\ pc # "raised"
    /\ Normalized =>
          /\ pending = {}
          /\ updated = Cardinality({n \in DOMAIN scripts :
                                      scripts[n].mode # scripts_before[n].mode})
          /\ os_name = "posix" =>
                /\ failures = {n \in Rglob(scripts_before) :
                                  Eligible(scripts_before[n])
                                  /\ scripts_before[n].locked}
                /\ \A n \in Rglob(scripts_before) :
                       Eligible(scripts_before[n]) /\ ~scripts_before[n].locked
                           => scripts[n].mode # scripts_before[n].mode
          /\ os_name = "nt" => failures = {}
    /\ pc = "done" => status = "success" /\ DOMAIN tree # {}

\* the chmod of one script failed, another script was made executable all the
\* same, the counts are one and one, and the run ended successfully
C16_Witness ==
    /\ pc = "done" /\ status = "success"
    /\ failures = {"a.sh"} /\ updated = 1
    /\ scripts["a.sh"] = scripts_before["a.sh"]
    /\ "sub/b.sh" \in DOMAIN scripts
    /\ AnyExec(scripts["sub/b.sh"].mode)
    /\ ~AnyExec(scripts_before["sub/b.sh"].mode)

\* C17: after an interruption during download, extraction or merge, a project
\* directory the run created is gone, as after a fatal error; a target used
\* in place is still there.
C17_InterruptCleansUp ==
    status = "interrupted" =>
        IF here THEN DOMAIN tree # {} ELSE DOMAIN tree = {}

\* the release lookup of the pass under way succeeded and the asset has been
\* chosen from its list
AssetChosen == release = "ok" /\ pc # "select"

\* no request for an asset was made in the pass under way
NoAssetRequest == \A k \in DOMAIN requests : requests[k] # <<idx, "asset">>

\* C18, as the specification states it: the asset chosen is the first in
\* listing order whose name contains template-<agent>-<script> and ends with
\* .zip; when there is none the run fails with exit status 1 and no download
\* request is made.
C18_FirstTemplateAsset ==
    AssetChosen =>
        LET pattern == <<"template", selected_ais[idx], script_type>>
            hits == {i \in DOMAIN assets :
                        Contains(assets[i], pattern) /\ EndsWith(assets[i], ".zip")}
        IN  IF hits = {}
            THEN /\ asset = NoAsset /\ NoAssetRequest
                 /\ pc \in {"raised", "done"} /\ failed = "resolve"
                 /\ pc = "done" => status = "failure"
            ELSE \E i \in hits : asset = assets[i] /\ \A j \in hits : i <= j

\* C18, as the code has it: the asset chosen is the first in listing order
\* whose name contains spec-kit-template-<agent>-<script> and ends with .zip;
\* when there is none the run fails with exit status 1 and no download request
\* is made.
C18_FirstSpecKitTemplateAsset ==
    AssetChosen =>
        LET pattern == <<"spec-kit", "template", selected_ais[idx], script_type>>
            hits == {i \in DOMAIN assets :
                        Contains(assets[i], pattern) /\ EndsWith(assets[i], ".zip")}
        IN  IF hits = {}
            THEN /\ asset = NoAsset /\ NoAssetRequest
                 /\ pc \in {"raised", "done"} /\ failed = "resolve"
                 /\ pc = "done" => status = "failure"
            ELSE \E i \in hits : asset = assets[i] /\ \A j \in hits : i <= j

\* of a list that holds template-claude-sh.zip, then the v2 and the v1 archive
\* of spec-kit-template-claude-sh, the second was chosen
C18_Witness ==
    /\ pc = "request"
    /\ selected_ais[idx] = "claude" /\ script_type = "sh"
    /\ assets = <<<<"template", "claude", "sh", ".zip">>,
                  <<"spec-kit", "template", "claude", "sh", "v2", ".zip">>,
                  <<"spec-kit", "template", "claude", "sh", "v1", ".zip">>>>
    /\ asset = assets[2]

\* the requests of one kind made in the pass of agent i
RequestsOf(i, kind) == {k \in DOMAIN requests : requests[k] = <<i, kind>>}

\* the release lookup of the pass under way failed
LookupFailed == release \in {"transport_error", "non200", "bad_json"}

\* the request for the asset, or the streaming of its body, failed in the pass
\* under way
AssetDownloadFailed ==
    /\ release = "ok" /\ asset # NoAsset /\ failed = "resolve"
    /\ RequestsOf(idx, "asset") # {}

\* C19: when the release lookup or the asset download of an agent fails, one
\* request and no more has been made for the failing step, the pass does not
\* return and no later agent is begun, and the run ends with failure status.
C19_FetchFailureFatal ==
    /\ LookupFailed =>
          /\ Cardinality(RequestsOf(idx, "release")) = 1
          /\ RequestsOf(idx, "asset") = {}
    /\ AssetDownloadFailed =>
          /\ Cardinality(RequestsOf(idx, "release")) = 1
          /\ Cardinality(RequestsOf(idx, "asset")) = 1
    /\ LookupFailed \/ AssetDownloadFailed =>
          /\ pc \in {"raised", "done"}
          /\ failed = "resolve"
          /\ pc = "done" => status = "failure"
          /\ idx <= Len(selected_ais)
          /\ completed_agents = SubSeq(selected_ais, 1, idx - 1)
          /\ log = SubSeq(selected_ais, 1, idx)

\* the lookup for the first of two agents got an answer that is no release;
\* one request was made, the run ended with failure, the second agent was
\* never begun
C19_Witness ==
    /\ release = "bad_json"
    /\ pc = "done" /\ status = "failure"
    /\ Len(selected_ais) = 2 /\ idx = 1
    /\ requests = <<<<1, "release">>>>
    /\ log = <<selected_ais[1]>>

\* the directories and the regular files of the listing whose names are those
\* of a template for the agent and the script type, unversioned or versioned
DirCandidates ==
    {n \in DOMAIN listing :
        /\ listing[n] = "dir"
        /\ n.family = "sdd" /\ n.agent = selected_ais[idx] /\ n.script = script_type
        /\ n.rest = << >> \/ Head(n.rest) = "-"}
ZipCandidates ==
    {n \in DOMAIN listing :
        /\ listing[n] = "file"
        /\ n.family = "spec-kit-template"
        /\ n.agent = selected_ais[idx] /\ n.script = script_type
        /\ n.rest = DotZip
           \/ /\ Len(n.rest) >= 5 /\ Head(n.rest) = "-"
              /\ SubSeq(n.rest, Len(n.rest) - 3, Len(n.rest)) = DotZip}

\* x is the lexicographically last name of S
LexLast(x, S) == x \in S /\ \A y \in S \ {x} : StrLess(y.rest, x.rest)

\* C20, as the specification states it: the result is the lexicographically
\* last of the matching directories, unversioned and versioned together; when
\* no directory matches, the lexicographically last of the matching archives;
\* nothing only when neither matches.
C20_LastVariant ==
    found # Unset =>
        IF DirCandidates # {} THEN LexLast(found, DirCandidates)
        ELSE IF ZipCandidates # {} THEN LexLast(found, ZipCandidates)
        ELSE found = NoVariant

\* C20, as the code has it: the result is the unversioned matching directory
\* when there is one, otherwise the lexicographically last of the matching
\* directories; when no directory matches, the lexicographically last of the
\* matching archives, unversioned and versioned together; nothing only when
\* neither matches.
C20_ExactThenLastVariant ==
    found # Unset =>
        IF DirCandidates # {}
        THEN IF \E n \in DirCandidates : n.rest = << >>
             THEN found \in DirCandidates /\ found.rest = << >>
             ELSE LexLast(found, DirCandidates)
        ELSE IF ZipCandidates # {} THEN LexLast(found, ZipCandidates)
        ELSE found = NoVariant

\* the directory held the unversioned package directory, the directories of
\* versions 2 and 10 and an archive: the unversioned directory was returned
C20_Witness ==
    /\ found = EntryName("sdd", "claude", "sh", << >>)
    /\ DirCandidates = {EntryName("sdd", "claude", "sh", r) :
                           r \in {<< >>, <<"-", "v", "2">>, <<"-", "v", "1", "0">>}}
    /\ ZipCandidates # {}

\* C23: when the pass of an agent is called, its preserve flag is true exactly
\* when the agent is the first and .specs exists in the project, or the agent
\* is a later one that has no known agent root (and so no filter).
C23_PreserveFlag ==
    pc = "resolve" =>
        (preserve_existing_specs <=>
            \/ idx = 1 /\ Exists(tree, <<SPECS>>)
            \/ /\ idx > 1
               /\ selected_ais[idx] \notin DOMAIN AGENT_ROOT_NAMES
               /\ filtered_top_level = {})

\* the second agent is called without the flag although .specs exists, after
\* the first was called with it
C23_Witness ==
    /\ pc = "resolve" /\ idx = 2
    /\ here /\ Exists(tree, <<SPECS>>)
    /\ existing_specs_present
    /\ ~preserve_existing_specs

\* an agent after the first is about to start
LaterAgentDue == pc = "loop" /\ 1 < idx /\ idx <= Len(selected_ais)

\* C24, as the specification states it: when an agent after the first starts,
\* the run and a twin of it that differs in nothing but the value of the
\* running flag can give the agent different preserve flags.
C24_FlagDecidesLater ==
    LaterAgentDue =>
        ENABLED (BeginAgentTwin /\ twin_preserve' # preserve_existing_specs')

\* C24, as the code has it: when an agent after the first starts, the run and
\* a twin of it that differs in nothing but the value of the running flag give
\* the agent the same preserve flag; the flag decides the first agent's only.
C24_FlagUnusedLater ==
    pc = "resolve" /\ idx > 1 => twin_preserve = preserve_existing_specs

\* the second agent started with the flag true in the run and false in the
\* twin, and with the same preserve flag in both
C24_Witness ==
    /\ pc = "resolve" /\ idx = 2
    /\ existing_specs_present /\ ~twin_present
    /\ twin_preserve = preserve_existing_specs

\* C25: when relocation has returned on a project that held a legacy root,
\* the legacy root is gone if no file remains inside it, and it is still there
\* only if a file remains inside it.
C25_LegacyRootRemoved ==
    Relocated /\ failed = "none" /\ IsDir(pre, legacy_root) =>
        (Exists(tree, legacy_root)
            <=> \E p \in Files(tree) : IsPrefix(legacy_root, p))

\* where relocation moves a path to: what lies under the legacy root, under a
\* legacy top-level name or under the specs root goes under the canonical root
RelocatedPath(p) ==
    IF p = << >> \/ IsPrefix(get_specify_root, p) THEN p
    ELSE IF IsPrefix(legacy_root, p) \/ IsPrefix(get_specs_root, p)
         THEN get_specify_root \o Tail(p)
    ELSE IF \E i \in DOMAIN non_agent_dirs : non_agent_dirs[i] = Head(p)
         THEN get_specify_root \o p
    ELSE p

\* C29: whatever relocate_non_agent_directories does, returning or raising,
\* every file there was before is there afterwards with its content, at its
\* path or at the path under the canonical root it is relocated to; a path
\* that is gone from both places was a directory.
C29_NoFileLost ==
    Relocated =>
        /\ \A p \in Files(pre) :
              \/ IsFile(tree, p) /\ tree[p] = pre[p]
              \/ IsFile(tree, RelocatedPath(p)) /\ tree[RelocatedPath(p)] = pre[p]
        /\ \A p \in DOMAIN pre :
              ~Exists(tree, p) /\ ~Exists(tree, RelocatedPath(p)) => pre[p] = DIR

\* a relocation merged the directory docs under the specs root into the one
\* under the canonical root: a file whose name was free moved, and the
\* directory, emptied, was removed
C29_Witness ==
    LET docs == <<SPECS, "docs">>
    IN  /\ Relocated
        /\ IsDir(pre, docs) /\ IsFile(pre, docs \o <<"foo.md">>)
        /\ IsDir(pre, get_specify_root \o <<"docs">>)
        /\ ~Exists(pre, get_specify_root \o <<"docs", "foo.md">>)
        /\ ~Exists(tree, docs)
        /\ IsFile(tree, get_specify_root \o <<"docs", "foo.md">>)
        /\ tree[get_specify_root \o <<"docs", "foo.md">>] = pre[docs \o <<"foo.md">>]

\* C26: in a merge pass, an entry of the payload that is its own destination
\* is skipped: what the project holds under its name stays as it was; when
\* every entry is its own destination the pass raises nothing and changes
\* nothing; and a pass that returns has dealt with every entry, the files of
\* the other entries being in the project.
C26_SameLocationSkipped ==
    pc \in {"merge", "returned", "except"} =>
        /\ \A n \in self_entries \ remaining :
              Subtree(tree, <<n>>) = Subtree(pre, <<n>>)
        /\ self_entries = TopLevelNames(payload_root) /\ payload_root # NoTree =>
              failed = "none" /\ tree = pre
        /\ pc = "returned" =>
              /\ remaining = {}
              /\ \A p \in Files(source) :
                    ~flatten_applied /\ Head(p) \notin self_entries
                        => Exists(tree, p)

\* a pass over three entries returned: one was the project's own directory,
\* holding a file, and stayed as it was; the other two were copied in
C26_Witness ==
    /\ pc = "returned" /\ failed = "none"
    /\ Cardinality(self_entries) = 1
    /\ \E n \in self_entries : \E p \in Files(pre) : Len(p) > 1 /\ Head(p) = n
    /\ Cardinality(TopLevelNames(source)) >= 3
    /\ tree # pre

\* C28: a target directory that existed when init was called is never
\* removed; called without --here on a target that exists, init does nothing
\* but end with exit status 1, the target as it was; so a directory that a
\* failed run removed is one the run made.
C28_CleanupSparesExisting ==
    /\ DOMAIN target_before # {} => DOMAIN tree # {}
    /\ ~here /\ DOMAIN target_before # {} /\ pc # "start" =>
          /\ pc = "done" /\ status = "failure"
          /\ tree = target_before /\ log = << >>
    /\ pc = "done" /\ status = "failure" /\ log # << >> /\ ~here =>
          DOMAIN target_before = {} /\ DOMAIN tree = {}

\* init was called without --here for a project whose directory holds a file:
\* it ended with exit status 1 and the directory is as it was
C28_Witness ==
    /\ ~here /\ Files(target_before) # {}
    /\ pc = "done" /\ status = "failure"
    /\ tree = target_before

\* C30: whatever calls of add, start, complete, error and skip are made on a
\* StepTracker, no two steps have the same key; a call removes no step and
\* leaves the steps it found in the order they had; and a start, complete,
\* error or skip of a key that no step has appends one step, of that key.
C30_StepsKept ==
    /\ [](\A i, j \in 1..Len(steps) : steps[i].key = steps[j].key => i = j)
    /\ [][/\ Len(steps') >= Len(steps)
          /\ SubSeq(Keys(steps'), 1, Len(steps)) = Keys(steps)
          /\ call'.op \in Updates /\ call'.key \notin KeySet(steps) =>
                /\ Len(steps') = Len(steps) + 1
                /\ steps'[Len(steps')].key = call'.key
                /\ steps'[Len(steps')].status = StatusOf[call'.op]]_vars

\* a key that no step had was skipped after two other steps were made, and
\* its step is the last of three
C30_Witness ==
    /\ Len(steps) = Cardinality(StepKeys)
    /\ call.op = "skip"
    /\ steps[Len(steps)].key = call.key
    /\ steps[Len(steps)].status = "skipped"
    /\ steps[Len(steps)].label = call.key

\* the agent names written in the values of --ai, in the order they are read
NamedIn(raw_values) ==
    LET RECURSIVE Flat(_)
        Flat(q) == IF q = << >> THEN << >> ELSE Head(q) \o Flat(Tail(q))
        words == SelectSeq(Flat(raw_values), IsWord)
    IN  [i \in 1..Len(words) |-> words[i].text]

FirstAt(q, x) == CHOOSE i \in 1..Len(q) : q[i] = x /\ \A j \in 1..(i - 1) : q[j] # x

\* init stopped at the selection of the agents
Refused == pc = "done" /\ status = "failure" /\ selected_ais = << >>

\* C27: no agent has two merge passes in a run.  Once the agents are selected
\* from the names given through --ai, in whatever case and however often:
\* init refuses exactly when a name is no agent's; otherwise the selection
\* holds each agent named, once, in lower case, agents in the order of their
\* first naming, so that the first agent is the first one named.
C27_OnePassPerAgent ==
    LET named == NamedIn(ai_assistants)
    IN  /\ \A i, j \in 1..Len(log) :
              log[i] = log[j] /\ log[i] \in AgentPool => i = j
        /\ \A i, j \in 1..Len(selected_ais) : selected_ais[i] = selected_ais[j] => i = j
        /\ pc # "select" /\ named # << >> =>
              /\ Refused <=> \E i \in 1..Len(named) : named[i] \notin AgentPool
              /\ ~Refused =>
                    /\ Range(selected_ais) = Range(named)
                    /\ selected_ais[1] = named[1]
                    /\ \A i, j \in 1..Len(selected_ais) :
                          i < j => FirstAt(named, selected_ais[i])
                                      < FirstAt(named, selected_ais[j])

\* gemini was named first, then claude twice and gemini again, in both cases
\* and in several values: the run made one pass for gemini, then one for claude
C27_Witness ==
    /\ Len(NamedIn(ai_assistants)) > Cardinality(Range(NamedIn(ai_assistants)))
    /\ \E i \in 1..Len(ai_assistants) :
          \E j \in 1..Len(ai_assistants[i]) : ai_assistants[i][j].upper
    /\ selected_ais = <<"gemini", "claude">>
    /\ log = <<"gemini", "claude", "relocate", "chmod">>
    /\ pc = "done" /\ status = "success"

\* the places a token is taken from, in the order of their precedence
TokenSources == <<cli_token, environ.GH_TOKEN, environ.GITHUB_TOKEN>>

\* the place holds a token that is not empty once trimmed
Available(v) == v # None /\ strip(v, Whitespace) # << >>

\* C22: a request carries the Authorization header exactly when the explicit
\* token, GH_TOKEN or GITHUB_TOKEN holds a token that is not empty once
\* trimmed, and the header then holds the first such token, in that order.
C22_FirstAvailableToken ==
    \A r \in 1..Len(sent) :
        LET avail == {i \in 1..Len(TokenSources) : Available(TokenSources[i])}
        IN  /\ sent[r] # {} <=> avail # {}
            /\ avail # {} =>
                  LET first == CHOOSE i \in avail : \A j \in avail : i <= j
                  IN  sent[r] = {<<"Authorization",
                                   Bearer(strip(TokenSources[first], Whitespace))>>}

\* C21: when init --here has run to its end on a directory and is run again
\* to its end with the same agents and the same payloads, the directory is
\* after the second run what it was after the first.
C21_RerunIdempotent ==
    run > 1 /\ pc = "done" /\ status = "success" => tree = first_tree


====
